---- MODULE Spec2Model ----
(***************************************************************************)
(* cc_session_mon: incremental JSONL session parsing (internal/session,    *)
(* record parser and incremental file reader) and the session watcher      *)
(* (registry, filesystem event handlers, sorted cache).                    *)
(***************************************************************************)
EXTENDS Integers, Sequences, FiniteSets, TLC

(***************************************************************************)
(* Bounds of the model.                                                    *)
(***************************************************************************)
MaxLines == 2       \* lines one file can hold
MaxOrderLines == 1  \* lines one file can hold where the session list is ordered
MaxReads == 3       \* calls of the incremental reader in the reader harness
MaxTime == 2        \* last value of the clock, which starts at 1
MaxDiscover == 2    \* runs of DiscoverSessions
MaxPending == 2     \* notifications the kernel queue holds
MaxFsErrors == 1    \* backend errors the notification backend reports
EventsCap == 2      \* capacity of Watcher.Events, scaled down (NewWatcher makes it 100)
ErrorsCap == 1      \* capacity of Watcher.Errors, scaled down (NewWatcher makes it 10)
MaxClock == 7       \* last value of the clock where it can jump by the activity window
MaxWraps == 2       \* prefixes (assignments, sudo, wrappers) before a shell command
MaxArgs == 2        \* arguments after the base command of a shell command
MaxTokenSize == 4   \* bytes the scanner's buffer holds, scaled down (the parser sets 2MB)

(***************************************************************************)
(* Session files.  A file is a sequence of lines; a line is the JSON body  *)
(* the writer intends (n bytes), how many of them are on disk (w), whether *)
(* the terminator is on disk (done) and whether the terminator is "\r\n"   *)
(* (cr) or "\n".  Only the last line of a file can be unterminated.        *)
(***************************************************************************)
NoInput == [file_path |-> "", path |-> "", url |-> "", command |-> "",
            pattern |-> "", query |-> "", prompt |-> "", description |-> "",
            skill |-> ""]

EditItem == [type |-> "tool_use", name |-> "Edit", valid |-> TRUE,
             input |-> [NoInput EXCEPT !.file_path = "/tmp/a.go"]]
WriteItem == [type |-> "tool_use", name |-> "Write", valid |-> TRUE,
              input |-> [NoInput EXCEPT !.file_path = "/tmp/b.go"]]
ReadItem == [type |-> "tool_use", name |-> "Read", valid |-> TRUE,
             input |-> [NoInput EXCEPT !.file_path = "/tmp/a.go"]]
TextItem == [type |-> "text", name |-> "", valid |-> FALSE, input |-> NoInput]

\* a complete, newline-terminated assistant record
Rec(uuid, ts, items) ==
    [json |-> TRUE, type |-> "assistant", hasMessage |-> TRUE, uuid |-> uuid,
     sessionId |-> "sess", ts |-> ts, cwd |-> "", gitBranch |-> "",
     items |-> items, n |-> 2, w |-> 2, done |-> TRUE, cr |-> FALSE]

\* a line that is not valid JSON
Garbage == [Rec("", 0, <<>>) EXCEPT !.json = FALSE, !.type = "", !.hasMessage = FALSE]

LineSize(L) == L.w + (IF L.done THEN (IF L.cr THEN 2 ELSE 1) ELSE 0)

RECURSIVE FileSize(_)
FileSize(lines) ==
    IF lines = <<>> THEN 0 ELSE LineSize(Head(lines)) + FileSize(Tail(lines))

\* the file ends on a line boundary
Terminated(lines) == IF Len(lines) = 0 THEN TRUE ELSE lines[Len(lines)].done

(***************************************************************************)
(* bufio.Scanner with the default split function (bufio.ScanLines) reading *)
(* the file from byte `offset`: one token per "\n", a trailing "\r" is     *)
(* dropped from the token, and a final unterminated non-empty rest is a    *)
(* token too.  A token is the whole JSON body only when the read starts at *)
(* the first byte of the line and the body is completely on disk; a proper *)
(* prefix or suffix of a JSON object never decodes.                        *)
(***************************************************************************)
RECURSIVE ScanLines(_, _, _)
ScanLines(lines, pos, offset) ==
    IF lines = <<>> THEN <<>>
    ELSE LET L == Head(lines)
             end == pos + LineSize(L)
             skip == IF offset > pos THEN offset - pos ELSE 0
             rest == ScanLines(Tail(lines), end, offset)
         IN  IF offset >= end THEN rest
             ELSE <<[len |-> IF L.w > skip THEN L.w - skip ELSE 0,
                     decodes |-> skip = 0 /\ L.w = L.n /\ L.json,
                     tooLong |-> (IF L.w > skip THEN L.w - skip ELSE 0)
                                    + (IF L.done /\ L.cr THEN 1 ELSE 0) >= MaxTokenSize,
                     line |-> L]>> \o rest

\* the tokens scanner.Scan() delivers: it stops at the first line that does not
\* fit into the scanner's buffer
RECURSIVE UntilTooLong(_)
UntilTooLong(toks) ==
    IF toks = <<>> THEN <<>>
    ELSE IF Head(toks).tooLong THEN <<>>
    ELSE <<Head(toks)>> \o UntilTooLong(Tail(toks))

\* scanner.Err() after the loop: bufio.ErrTooLong
ErrTooLong(toks) == \E i \in 1..Len(toks) : toks[i].tooLong

\* F applied to the value of x, which is computed once
Apply(x, F(_)) == CHOOSE y \in {F(v) : v \in {x}} : TRUE

(***************************************************************************)
(* Go string helpers (package strings) on TLA+ strings.                    *)
(***************************************************************************)
Char(s, i) == SubSeq(s, i, i)

IsSpace(c) == c \in {" ", "\t", "\n", "\r", "\f"}

HasPrefix(s, prefix) ==
    Len(s) >= Len(prefix) /\ SubSeq(s, 1, Len(prefix)) = prefix

HasSuffix(s, suffix) ==
    Len(s) >= Len(suffix) /\ SubSeq(s, Len(s) - Len(suffix) + 1, Len(s)) = suffix

Contains(s, c) == \E i \in 1..Len(s) : Char(s, i) = c

\* strings.Fields: the maximal runs of non-space characters, in order
RECURSIVE FieldsFrom(_, _, _)
FieldsFrom(s, i, cur) ==
    IF i > Len(s) THEN (IF cur = "" THEN <<>> ELSE <<cur>>)
    ELSE IF IsSpace(Char(s, i))
         THEN (IF cur = "" THEN <<>> ELSE <<cur>>) \o FieldsFrom(s, i + 1, "")
         ELSE FieldsFrom(s, i + 1, cur \o Char(s, i))

Fields(s) == FieldsFrom(s, 1, "")

\* strings.Trim(s, cutset) for a cutset given as a set of characters
RECURSIVE TrimLeft(_, _)
TrimLeft(s, cutset) ==
    IF Len(s) > 0 /\ Char(s, 1) \in cutset
    THEN TrimLeft(SubSeq(s, 2, Len(s)), cutset) ELSE s

RECURSIVE TrimRight(_, _)
TrimRight(s, cutset) ==
    IF Len(s) > 0 /\ Char(s, Len(s)) \in cutset
    THEN TrimRight(SubSeq(s, 1, Len(s) - 1), cutset) ELSE s

Trim(s, cutset) == TrimRight(TrimLeft(s, cutset), cutset)

TrimSpace(s) == Trim(s, {" ", "\t", "\n", "\r", "\f"})

RECURSIVE Join(_, _)
Join(parts, sep) ==
    IF parts = <<>> THEN ""
    ELSE IF Len(parts) = 1 THEN parts[1]
    ELSE parts[1] \o sep \o Join(Tail(parts), sep)

(***************************************************************************)
(* Configuration: the tool groups, checked in order, first match wins.     *)
(* The groups are those of DefaultConfig; the user's config file marks the *)
(* read-only group as excluded from display.                               *)
(***************************************************************************)
GlobalConfig ==
    <<[Name |-> "dangerous", Exclude |-> FALSE,
       Patterns |-> <<"Bash(rm:*)", "Bash(sudo:*)", "Bash(chmod:*)", "Bash(chown:*)",
                      "Bash(dd:*)", "Bash(mkfs:*)", "Bash(kill:*)", "Bash(pkill:*)",
                      "Bash(killall:*)">>],
      [Name |-> "write", Exclude |-> FALSE, Patterns |-> <<"Write", "NotebookEdit">>],
      [Name |-> "edit", Exclude |-> FALSE, Patterns |-> <<"Edit">>],
      [Name |-> "bash", Exclude |-> FALSE, Patterns |-> <<"Bash(*)">>],
      [Name |-> "task", Exclude |-> FALSE, Patterns |-> <<"Task", "TaskOutput">>],
      [Name |-> "read-only", Exclude |-> TRUE,
       Patterns |-> <<"Read", "Glob", "Grep", "WebFetch", "WebSearch", "TodoRead",
                      "AskUserQuestion", "mcp__*">>],
      [Name |-> "unmatched", Exclude |-> FALSE, Patterns |-> <<"*">>]>>

\* every pattern of the configuration
ConfiguredPatterns ==
    UNION {{GlobalConfig[i].Patterns[j] : j \in 1..Len(GlobalConfig[i].Patterns)} :
              i \in 1..Len(GlobalConfig)}

\* position of the first "*" of s
StarAt(s) == CHOOSE i \in 1..Len(s) : Char(s, i) = "*" /\ \A j \in 1..(i - 1) : Char(s, j) # "*"

\* strings.SplitN(pattern, "*", 2) of the configured patterns
SplitAtStar ==
    [pattern \in ConfiguredPatterns |->
        IF Contains(pattern, "*")
        THEN <<SubSeq(pattern, 1, StarAt(pattern) - 1),
               SubSeq(pattern, StarAt(pattern) + 1, Len(pattern))>>
        ELSE <<pattern>>]

\* matchPattern: equal, or the text before and the text after the first "*" of the
\* pattern are a prefix and a suffix of the value
matchPattern(pattern, value) ==
    \/ pattern = value
    \/ /\ Len(SplitAtStar[pattern]) = 2
       /\ HasPrefix(value, SplitAtStar[pattern][1])
       /\ HasSuffix(value, SplitAtStar[pattern][2])

Matches(g, pattern) == \E i \in 1..Len(g.Patterns) : matchPattern(g.Patterns[i], pattern)

\* GetToolGroup: index of the first group from i on that matches (0: none)
RECURSIVE GetToolGroupFrom(_, _, _)
GetToolGroupFrom(c, i, pattern) ==
    IF i > Len(c) THEN 0
    ELSE IF Matches(c[i], pattern) THEN i
    ELSE GetToolGroupFrom(c, i + 1, pattern)

GetToolGroup(c, pattern) == GetToolGroupFrom(c, 1, pattern)

ShouldExclude(c, pattern) ==
    LET group == GetToolGroup(c, pattern)
    IN  group # 0 /\ c[group].Exclude

\* a filter that lets every pattern in
includeAll(pattern) == TRUE

ShouldInclude(pattern) == ~ShouldExclude(GlobalConfig, pattern)

\* words[k:] of Go, k counted from 0
Drop(words, k) == SubSeq(words, k + 1, Len(words))

(***************************************************************************)
(* Pattern extractor.                                                      *)
(***************************************************************************)
Depth1Commands ==
    {"git", "zfs", "zpool", "incus", "lxc", "podman", "docker", "kubectl",
     "helm", "systemctl", "launchctl", "nix", "nixos-rebuild", "home-manager",
     "go", "cargo", "npm", "yarn", "pnpm", "pip", "uv", "make", "gh", "tmux",
     "defaults", "alembic"}

subcommandDepth(cmd) == IF cmd \in Depth1Commands THEN 1 ELSE 0

\* a skipFlags that skips nothing
skipNoFlags(args) == args

RECURSIVE skipFlags(_)
skipFlags(args) ==
    IF Len(args) > 0 /\ HasPrefix(args[1], "-") THEN skipFlags(Tail(args)) ELSE args

RECURSIVE subcommandLoop(_, _, _)
subcommandLoop(i, depth, args) ==
    IF ~(i < depth /\ Len(args) > 0) THEN <<>>
    ELSE LET a == skipFlags(args)
         IN  IF Len(a) = 0 THEN <<>>
             ELSE <<a[1]>> \o subcommandLoop(i + 1, depth, Tail(a))

extractSubcommands(cmd, args) ==
    LET depth == subcommandDepth(cmd)
    IN  IF depth = 0 \/ Len(args) = 0 THEN <<>> ELSE subcommandLoop(0, depth, args)

buildPatternParts(hasSudo, words) ==
    (IF hasSudo THEN <<"sudo">> ELSE <<>>) \o <<words[1]>>
        \o extractSubcommands(words[1], Tail(words))

bashPattern(hasSudo, parts) ==
    IF Len(parts) = 0 THEN (IF hasSudo THEN "Bash(sudo:*)" ELSE "Bash")
    ELSE "Bash(" \o Join(parts, ":") \o ":*)"

\* a skipEnvVars that skips nothing
skipNoEnvVars(words) == words

RECURSIVE skipEnvVars(_)
skipEnvVars(words) ==
    IF Len(words) > 0 /\ Contains(words[1], "=") /\ ~HasPrefix(words[1], "-")
    THEN skipEnvVars(Tail(words)) ELSE words

SudoArgFlags == {"-u", "-g", "-C", "-D", "-h", "-p"}

RECURSIVE skipSudoFlags(_)
skipSudoFlags(words) ==
    IF Len(words) = 0 THEN words
    ELSE IF ~HasPrefix(words[1], "-") THEN words
    ELSE IF words[1] \in SudoArgFlags
         THEN skipSudoFlags(IF Len(words) > 1 THEN Drop(words, 2) ELSE Drop(words, 1))
         ELSE skipSudoFlags(Drop(words, 1))

\* the loops of the unwrappers run over the 0-based index i of words[i]
RECURSIVE unwrapEnvLoop(_, _)
unwrapEnvLoop(words, i) ==
    IF ~(i < Len(words)) THEN <<>>
    ELSE IF Contains(words[i + 1], "=") \/ HasPrefix(words[i + 1], "-")
         THEN unwrapEnvLoop(words, i + 1)
         ELSE Drop(words, i)

unwrapEnv(words) == unwrapEnvLoop(words, 1)

unwrapSimple(words) == IF Len(words) > 1 THEN Drop(words, 1) ELSE <<>>

RECURSIVE unwrapNiceLoop(_, _)
unwrapNiceLoop(words, i) ==
    IF ~(i < Len(words)) THEN <<>>
    ELSE IF words[i + 1] = "-n" /\ i + 1 < Len(words) THEN unwrapNiceLoop(words, i + 2)
    ELSE IF HasPrefix(words[i + 1], "-") THEN unwrapNiceLoop(words, i + 1)
    ELSE Drop(words, i)

unwrapNice(words) == unwrapNiceLoop(words, 1)

RECURSIVE unwrapXargsLoop(_, _)
unwrapXargsLoop(words, i) ==
    IF ~(i < Len(words)) THEN <<>>
    ELSE IF ~HasPrefix(words[i + 1], "-") THEN Drop(words, i)
    ELSE unwrapXargsLoop(words, i + 1)

unwrapXargs(words) == unwrapXargsLoop(words, 1)

unwrapCommand(words) ==
    IF Len(words) = 0 THEN words
    ELSE CASE words[1] = "env" -> unwrapEnv(words)
           [] words[1] \in {"time", "nohup", "strace", "ltrace"} -> unwrapSimple(words)
           [] words[1] = "nice" -> unwrapNice(words)
           [] words[1] = "xargs" -> unwrapXargs(words)
           [] OTHER -> words

isShell(cmd) == cmd \in {"bash", "sh", "zsh"}

RECURSIVE extractShellLoop(_, _)
extractShellLoop(words, i) ==
    IF ~(i < Len(words)) THEN words
    ELSE IF words[i + 1] = "-c" /\ i + 1 < Len(words)
         THEN Fields(Trim(TrimSpace(words[i + 2]), {"'", "\""}))
         ELSE extractShellLoop(words, i + 1)

extractShellCommand(words) == extractShellLoop(words, 1)

extractBashPattern(command) ==
    IF TrimSpace(command) = "" THEN "Bash"
    ELSE Apply(skipEnvVars(Fields(TrimSpace(command))),
           LAMBDA words1 :
             IF Len(words1) = 0 THEN "Bash"
             ELSE Apply(words1[1] = "sudo",
                    LAMBDA hasSudo :
                      Apply(unwrapCommand(IF hasSudo THEN skipSudoFlags(Tail(words1))
                                          ELSE words1),
                        LAMBDA words3 :
                          Apply(IF Len(words3) > 0 /\ isShell(words3[1])
                                THEN extractShellCommand(words3) ELSE words3,
                            LAMBDA words4 :
                              bashPattern(hasSudo,
                                          IF Len(words4) = 0 THEN <<>>
                                          ELSE buildPatternParts(hasSudo, words4))))))

ExtractPattern(toolName, input) ==
    IF toolName = "Bash" THEN extractBashPattern(input) ELSE toolName

(***************************************************************************)
(* Record parser.                                                          *)
(***************************************************************************)
RECURSIVE firstNonEmpty(_)
firstNonEmpty(strs) ==
    IF strs = <<>> THEN ""
    ELSE IF Head(strs) # "" THEN Head(strs) ELSE firstNonEmpty(Tail(strs))

truncate(s, maxLen) == IF Len(s) > maxLen THEN SubSeq(s, 1, maxLen) \o "..." ELSE s

formatGlob(g) ==
    IF g.pattern # "" /\ g.path # "" THEN g.path \o "/" \o g.pattern
    ELSE firstNonEmpty(<<g.pattern, g.path>>)

formatGrep(g) ==
    IF g.pattern # "" /\ g.path # "" THEN g.pattern \o " in " \o g.path
    ELSE firstNonEmpty(<<g.pattern, g.path>>)

fallbackDisplay(g) ==
    LET s == firstNonEmpty(<<g.file_path, g.path, g.command, g.pattern, g.query,
                             g.url, g.description>>)
    IN  IF s # "" THEN s
        ELSE IF g.prompt # "" THEN truncate(g.prompt, 100)
        ELSE g.skill

ExtractDisplayString(g, toolName) ==
    CASE toolName = "Bash" -> g.command
      [] toolName \in {"Edit", "Write", "NotebookEdit", "Read"} -> g.file_path
      [] toolName = "Glob" -> formatGlob(g)
      [] toolName = "Grep" -> formatGrep(g)
      [] toolName \in {"WebFetch", "WebSearch"} -> firstNonEmpty(<<g.url, g.query>>)
      [] toolName = "Task" -> g.description
      [] toolName = "Skill" -> g.skill
      [] OTHER -> fallbackDisplay(g)

newParseState(filePath, startLine, startOffset) ==
    [commands |-> <<>>, meta |-> [GitBranch |-> "", CWD |-> ""], seen |-> {},
     lineNumber |-> startLine, offset |-> startOffset, filePath |-> filePath]

captureMetadata(ps, record) ==
    [ps EXCEPT !.meta = [CWD |-> IF record.cwd # "" /\ @.CWD = "" THEN record.cwd ELSE @.CWD,
                         GitBranch |-> IF record.gitBranch # "" /\ @.GitBranch = ""
                                       THEN record.gitBranch ELSE @.GitBranch]]

\* one tool_use content item of an assistant record; `now` is time.Now()
\* a tool call handler that keeps no set of the keys it has seen
processToolUseNoDedup(ps, record, content, now) ==
    IF content.type # "tool_use" THEN ps
    ELSE [ps EXCEPT !.commands =
            Append(@, [Timestamp |-> IF record.ts > 0 THEN record.ts ELSE now,
                       ToolName |-> content.name, Pattern |-> content.name,
                       RawCommand |-> IF content.valid
                                      THEN ExtractDisplayString(content.input, content.name)
                                      ELSE content.name,
                       SessionID |-> record.sessionId, UUID |-> record.uuid,
                       LineNumber |-> ps.lineNumber, FilePath |-> ps.filePath])]

processToolUse(ps, record, content, now) ==
    IF content.type # "tool_use" THEN ps
    ELSE LET display == IF content.valid
                        THEN ExtractDisplayString(content.input, content.name) ELSE ""
             raw == IF display = "" THEN content.name ELSE display
             command == IF content.valid THEN content.input.command ELSE ""
             pattern == IF content.name = "Bash"
                        THEN ExtractPattern("Bash", command)
                        ELSE content.name
             entryKey == record.uuid \o content.name
             entry == [Timestamp |-> IF record.ts > 0 THEN record.ts ELSE now,
                       ToolName |-> content.name, Pattern |-> pattern,
                       RawCommand |-> raw, SessionID |-> record.sessionId,
                       UUID |-> record.uuid, LineNumber |-> ps.lineNumber,
                       FilePath |-> ps.filePath]
         IN  IF ~ShouldInclude(pattern) THEN ps
             ELSE IF entryKey \in ps.seen THEN ps
             ELSE [ps EXCEPT !.seen = @ \cup {entryKey},
                             !.commands = IF raw # "" THEN Append(@, entry) ELSE @]

RECURSIVE processContent(_, _, _, _)
processContent(ps, record, items, now) ==
    IF items = <<>> THEN ps
    ELSE Apply(processToolUse(ps, record, Head(items), now),
               LAMBDA ps1 : processContent(ps1, record, Tail(items), now))

\* one scanner token; the parse state afterwards (the byte count is tok.len + 1)
\* a line handler that does not count a line it cannot decode
processLineUncounted(ps, tok, now) ==
    IF ~tok.decodes THEN ps
    ELSE Apply(captureMetadata([ps EXCEPT !.lineNumber = @ + 1], tok.line),
               LAMBDA ps2 :
                  IF tok.line.type # "assistant" \/ ~tok.line.hasMessage THEN ps2
                  ELSE processContent(ps2, tok.line, tok.line.items, now))

processLine(ps, tok, now) ==
    LET ps1 == [ps EXCEPT !.lineNumber = @ + 1]
    IN  IF ~tok.decodes THEN ps1
        ELSE Apply(captureMetadata(ps1, tok.line),
                   LAMBDA ps2 :
                      IF tok.line.type # "assistant" \/ ~tok.line.hasMessage THEN ps2
                      ELSE processContent(ps2, tok.line, tok.line.items, now))

lineLen(tok) == tok.len + 1

RECURSIVE scanLoop(_, _, _, _)
scanLoop(ps, toks, now, track) ==
    IF toks = <<>> THEN ps
    ELSE Apply(processLine(ps, Head(toks), now),
               LAMBDA ps1 :
                  scanLoop(IF track THEN [ps1 EXCEPT !.offset = @ + lineLen(Head(toks))]
                           ELSE ps1, Tail(toks), now, track))

\* ParseSessionFile: the whole file, no offset bookkeeping
ParseSessionFile(path, lines, now) ==
    Apply(ScanLines(lines, 0, 0),
          LAMBDA toks :
             Apply(scanLoop(newParseState(path, 0, 0), UntilTooLong(toks), now, FALSE),
                   LAMBDA ps : [commands |-> ps.commands, meta |-> ps.meta,
                                err |-> ErrTooLong(toks)]))

\* ParseSessionFileFrom without the Seek: it scans the file from its first byte
ParseSessionFileFromNoSeek(path, lines, offset, startLine, now) ==
    Apply(ScanLines(lines, 0, 0),
          LAMBDA toks :
             Apply(scanLoop(newParseState(path, startLine, offset), UntilTooLong(toks),
                            now, TRUE),
                   LAMBDA ps : [commands |-> ps.commands, meta |-> ps.meta,
                                newOffset |-> ps.offset, newLine |-> ps.lineNumber,
                                err |-> ErrTooLong(toks)]))

\* ParseSessionFileFrom: seek to offset, scan to the end of the file
ParseSessionFileFrom(path, lines, offset, startLine, now) ==
    Apply(ScanLines(lines, 0, offset),
          LAMBDA toks :
             Apply(scanLoop(newParseState(path, startLine, offset), UntilTooLong(toks),
                            now, TRUE),
                   LAMBDA ps : [commands |-> ps.commands, meta |-> ps.meta,
                                newOffset |-> ps.offset, newLine |-> ps.lineNumber,
                                err |-> ErrTooLong(toks)]))

(***************************************************************************)
(* The watcher, its environment (the writer of the session files, the      *)
(* kernel's notification queue, the clock) and the UI task.                *)
(***************************************************************************)
VARIABLES
    fs,               \* path -> [exists, lines, mtime]: the .jsonl files on disk
    dirs,             \* directory -> [exists, mtime]
    now,              \* the clock
    fsEvents,         \* fsWatcher.Events: notifications not yet received by the watch loop
    fsErrors,         \* fsWatcher.Errors: number of backend errors not yet received
    watched,          \* directories added to fsWatcher
    projectsDirs,     \* Watcher.projectsDirs
    heap,             \* the Session objects ever allocated; a *Session is an index
    sessions,         \* Watcher.sessions: main path -> *Session (0: no entry)
    offsets,          \* Watcher.offsets
    lineNumbers,      \* Watcher.lineNumbers
    subagentMap,      \* Watcher.subagentMap: subagent path -> main path ("": no entry)
    sortedCache,      \* Watcher.sortedCache
    sortedCacheValid, \* Watcher.sortedCacheValid
    Events,           \* Watcher.Events
    Errors,           \* Watcher.Errors
    loops,            \* number of watchLoop goroutines started
    mu,               \* Watcher.mu: "" or the task holding the write lock
    last,             \* what the last step did (its name, inputs, results); while mu
                      \* is held, the handler that holds it
    uiSessions,       \* Model.sessions: the slice the UI got from the watcher
    uiPc,             \* position of the UI task inside GetSessions
    uiSeen,           \* the last read of a command list through uiSessions
    rd,               \* state of the client of the incremental reader (reader harness)
    px,               \* state of the client of ExtractPattern (pattern harness)
    done,             \* Watcher.done is closed
    exited,           \* number of watchLoop goroutines that returned
    inFlight,         \* the handler that was executing when Stop was called, if any
    muReaders,        \* Watcher.mu: the tasks holding the read lock
    callers           \* concurrent callers of GetSessions: caller -> position in it

vars == <<fs, dirs, now, fsEvents, fsErrors, watched, projectsDirs, heap, sessions,
          offsets, lineNumbers, subagentMap, sortedCache, sortedCacheValid, Events,
          Errors, loops, mu, last, uiSessions, uiPc, uiSeen, rd, px, done, exited, inFlight, muReaders, callers>>

envVars == <<fs, dirs, now, fsEvents, fsErrors>>
regVars == <<watched, projectsDirs, heap, sessions, offsets, lineNumbers, subagentMap,
             sortedCache, sortedCacheValid, Events, Errors, loops, mu>>
uiVars == <<uiSessions, uiPc, uiSeen>>

MainPaths == {"m1", "m2"}
SubPaths == {"s1"}
Paths == MainPaths \cup SubPaths

\* <project>/<session>/subagents/<sub>.jsonl belongs to <project>/<session>.jsonl
MainOf(sub) == "m1"

ProjectDir == "proj"
SessionSubdir(main) == main \o "/"
SubagentDir(main) == main \o "/subagents"
Dirs == {"root", ProjectDir} \cup {SessionSubdir(MainOf(p)) : p \in SubPaths}
                      \cup {SubagentDir(MainOf(p)) : p \in SubPaths}

DirOf(p) == IF p \in SubPaths THEN SubagentDir(MainOf(p)) ELSE ProjectDir
ParentDir(d) == IF d = "root" THEN "parent"     \* filepath.Dir(projectsDir)
                ELSE IF d = ProjectDir THEN "root"
                ELSE IF \E m \in MainPaths : d = SubagentDir(m)
                     THEN SessionSubdir(CHOOSE m \in MainPaths : d = SubagentDir(m))
                     ELSE ProjectDir

ActiveWindow == 5

\* the tasks that call GetSessions concurrently
Callers == {"c1", "c2"}

NoFile == [exists |-> FALSE, lines |-> <<>>, mtime |-> 0]
RdInit == [lines |-> <<>>, offset |-> 0, line |-> 0, calls |-> 0, grown |-> FALSE,
           boundary |-> TRUE, got |-> <<>>, out |-> <<>>,
           pre |-> [offset |-> 0, line |-> 0, grown |-> FALSE]]

PxInit == [wraps |-> <<>>, cmd |-> <<>>, pad |-> "", called |-> FALSE,
           toolName |-> "", input |-> "", pattern |-> ""]

\* record of the operation that ran last
LastOf(op, path) ==
    [op |-> op, path |-> path, ok |-> TRUE, session |-> 0, oldCommands |-> <<>>,
     newCommands |-> <<>>, oldOffset |-> 0, oldLine |-> 0, newOffset |-> 0,
     newLine |-> 0, size |-> 0, full |-> FALSE, sent |-> FALSE, failed |-> ""]

NoLast == LastOf("init", "")

NoRead == [session |-> 0, got |-> <<>>, old |-> <<>>, batch |-> <<>>]

\* the state after NewWatcher, where the directories `existing` exist
InitWith(existing) ==
    /\ fs = [p \in Paths |-> NoFile]
    /\ dirs = [d \in Dirs |-> [exists |-> d \in existing, mtime |-> 0]]
    /\ now = 1
    /\ fsEvents = <<>>
    /\ fsErrors = 0
    /\ watched = {}
    /\ projectsDirs = <<"root">>
    /\ heap = <<>>
    /\ sessions = [p \in MainPaths |-> 0]
    /\ offsets = [p \in Paths |-> 0]
    /\ lineNumbers = [p \in Paths |-> 0]
    /\ subagentMap = [p \in SubPaths |-> ""]
    /\ sortedCache = <<>>
    /\ sortedCacheValid = FALSE
    /\ Events = <<>>
    /\ Errors = <<>>
    /\ loops = 0
    /\ mu = ""
    /\ last = NoLast
    /\ uiSessions = <<>>
    /\ uiPc = "idle"
    /\ uiSeen = NoRead
    /\ rd = RdInit
    /\ px = PxInit
    /\ done = FALSE
    /\ exited = 0
    /\ inFlight = NoLast
    /\ muReaders = {}
    /\ callers = [c \in Callers |-> "idle"]

Init == InitWith({"root", ProjectDir})

(***************************************************************************)
(* Sorting.  sort.Slice is not stable and Go's map iteration order is      *)
(* unspecified: every order of the elements that respects the comparison   *)
(* is a possible result.                                                   *)
(***************************************************************************)
Orders(n) == IF n = 0 THEN {<<>>} ELSE Permutations(1..n)

Range(seq) == {seq[i] : i \in 1..Len(seq)}

\* sort.Slice(commands, Timestamp.Before)
SortByTimestamp(commands) ==
    LET n == Len(commands)
    IN  {[i \in 1..n |-> commands[f[i]]] :
            f \in {g \in Orders(n) :
                     \A i \in 1..(n - 1) :
                        commands[g[i]].Timestamp <= commands[g[i + 1]].Timestamp}}

\* sort.Slice(ptrs, LastActivity.After) over the objects of heap h
SortByLastActivity(ptrs, h) ==
    LET n == Len(ptrs)
    IN  {[i \in 1..n |-> ptrs[f[i]]] :
            f \in {g \in Orders(n) :
                     \A i \in 1..(n - 1) :
                        h[ptrs[g[i]]].LastActivity >= h[ptrs[g[i + 1]]].LastActivity}}

(***************************************************************************)
(* Session assembler: parseSessionFile and discoverInDir.                  *)
(***************************************************************************)
PathOrder == <<"m1", "m2", "s1">>      \* the order of filepath.Glob and os.ReadDir

IsSubagentOf(main, p) == p \in SubPaths /\ MainOf(p) = main

\* filepath.Glob(<project>/<session>/subagents/*.jsonl)
SubagentFiles(main) ==
    SelectSeq(PathOrder, LAMBDA p : IsSubagentOf(main, p) /\ fs[p].exists)

\* filepath.Glob(<project>/*.jsonl)
JsonlFiles == SelectSeq(PathOrder, LAMBDA p : p \in MainPaths /\ fs[p].exists)

DirExists(d) == d \in Dirs /\ dirs[d].exists

RECURSIVE SubagentCommands(_)
SubagentCommands(subs) ==
    IF subs = <<>> THEN <<>>
    ELSE ParseSessionFile(Head(subs), fs[Head(subs)].lines, now).commands
            \o SubagentCommands(Tail(subs))

lastActivityOf(path, commands) ==
    LET mtime == fs[path].mtime
        byCmd == IF Len(commands) > 0 /\ commands[Len(commands)].Timestamp > mtime
                 THEN commands[Len(commands)].Timestamp ELSE mtime
        subDir == SubagentDir(path)
    IN  IF DirExists(subDir) /\ dirs[subDir].mtime > mtime THEN dirs[subDir].mtime
        ELSE byCmd

\* the Session objects parseSessionFile can build ({}: it returns nil)
parseSessionFile(path, encodedProject) ==
    IF ~fs[path].exists THEN {}
    ELSE Apply(ParseSessionFile(path, fs[path].lines, now),
               LAMBDA main :
                  IF main.err THEN {} ELSE
                  Apply(main.commands \o SubagentCommands(SubagentFiles(path)),
                        LAMBDA all :
                           {[ID |-> path,
                             ProjectPath |-> IF main.meta.CWD = "" THEN encodedProject
                                             ELSE main.meta.CWD,
                             FilePath |-> path,
                             GitBranch |-> main.meta.GitBranch,
                             LastActivity |-> lastActivityOf(path, c),
                             Commands |-> c,
                             IsActive |-> now - lastActivityOf(path, c) < ActiveWindow] :
                                c \in SortByTimestamp(all)}))

\* the part of the watcher that discovery and the handlers change
Registry ==
    [heap |-> heap, sessions |-> sessions, offsets |-> offsets,
     subagentMap |-> subagentMap, watched |-> watched,
     sortedCacheValid |-> sortedCacheValid, found |-> <<>>]

RECURSIVE trackSubagents(_, _, _)
trackSubagents(r, subs, main) ==
    IF subs = <<>> THEN r
    ELSE Apply([r EXCEPT !.subagentMap[Head(subs)] = main,
                         !.offsets[Head(subs)] = FileSize(fs[Head(subs)].lines)],
               LAMBDA r1 : trackSubagents(r1, Tail(subs), main))

\* body of the loop of discoverInDir for one session file and one parse result
registerSession(r, jsonlPath, s) ==
    Apply([r EXCEPT !.heap = Append(@, s),
                    !.sessions[jsonlPath] = Len(r.heap) + 1,
                    !.found = Append(@, Len(r.heap) + 1),
                    !.sortedCacheValid = FALSE,
                    !.offsets[jsonlPath] = FileSize(fs[jsonlPath].lines),
                    !.watched = IF DirExists(SessionSubdir(jsonlPath))
                                THEN @ \cup {SessionSubdir(jsonlPath)} ELSE @],
          LAMBDA r1 :
             Apply(SubagentFiles(jsonlPath),
                   LAMBDA subs :
                      [trackSubagents(r1, subs, jsonlPath) EXCEPT
                          !.watched = IF Len(subs) > 0
                                      THEN @ \cup {SubagentDir(jsonlPath)} ELSE @]))

\* the registries discoverInDir can leave behind
RECURSIVE discoverFiles(_, _)
discoverFiles(r, files) ==
    IF files = <<>> THEN {r}
    ELSE Apply(parseSessionFile(Head(files), ProjectDir),
               LAMBDA made :
                  IF made = {} THEN discoverFiles(r, Tail(files))
                  ELSE UNION {discoverFiles(r1, Tail(files)) :
                                 r1 \in {registerSession(r, Head(files), s) : s \in made}})

discoverInDir(r, projectsDir) ==
    IF ~DirExists(projectsDir) THEN {r}    \* os.ReadDir fails: no such directory
    ELSE IF ~DirExists(ProjectDir) THEN {r}  \* no entry
    ELSE {[r1 EXCEPT !.watched = @ \cup {ProjectDir}] :
             r1 \in UNION {discoverFiles(r0, JsonlFiles) : r0 \in {r}}}

RECURSIVE discoverDirs(_, _)
discoverDirs(r, pds) ==
    IF pds = <<>> THEN {r}
    ELSE UNION {discoverDirs(r1, Tail(pds)) :
                   r1 \in UNION {discoverInDir(r0, Head(pds)) :
                                    r0 \in {[r EXCEPT !.watched =
                                              @ \cup {IF DirExists(Head(pds))
                                                      THEN Head(pds)
                                                      ELSE ParentDir(Head(pds))}]}}}

(***************************************************************************)
(* Operations of the watcher.                                              *)
(***************************************************************************)
\* a send that makes room in a full channel by dropping the oldest event
trySendDropOldest(ch, ev) ==
    IF Len(ch) < EventsCap THEN Append(ch, ev) ELSE Append(Tail(ch), ev)

\* select { case w.Events <- ev: default: }
trySend(ch, ev) == IF Len(ch) < EventsCap THEN Append(ch, ev) ELSE ch

WatchEvent(type, session, commands) ==
    [Type |-> type, Session |-> session, Commands |-> commands]

\* a write lock that does not wait for the readers to leave
canLockDespiteReaders == mu = ""

\* w.mu.Lock() does not block: no task holds the write lock or a read lock
canLock == mu = "" /\ muReaders = {}

\* DiscoverSessions run by the UI's discover command (at start, on the refresh key,
\* after a devagent refresh), then the UI's handling of the sessionsDiscoveredMsg
\* it returns: m.sessions = msg; m.watcher.Start()
DiscoverSessions ==
    /\ canLock
    /\ uiPc = "idle"
    /\ loops < MaxDiscover
    /\ \E r \in discoverDirs(Registry, projectsDirs) :
         /\ heap' = r.heap
         /\ sessions' = r.sessions
         /\ offsets' = r.offsets
         /\ subagentMap' = r.subagentMap
         /\ watched' = r.watched
         /\ sortedCacheValid' = r.sortedCacheValid
         /\ \E sorted \in SortByLastActivity(r.found, r.heap) : uiSessions' = sorted
    /\ loops' = loops + 1
    /\ last' = LastOf("DiscoverSessions", "")
    /\ UNCHANGED <<envVars, projectsDirs, lineNumbers, sortedCache, Events, Errors, mu,
                   uiPc, uiSeen, rd, px, done, exited, inFlight, muReaders, callers>>

\* what ParseSessionFileFrom returns when os.Open or file.Seek fails
ReadError(offset, startLine) ==
    [commands |-> <<>>, meta |-> [CWD |-> "", GitBranch |-> ""],
     newOffset |-> offset, newLine |-> startLine, err |-> TRUE]

\* a read whose error the caller does not look at
errIgnored(r) == FALSE

\* if err != nil { return }
errReturned(r) == r.err

\* handleFileUpdate(path); readOK: os.Open and file.Seek do not fail on a file
\* that exists
handleFileUpdate(path, readOK) ==
    LET mainSessionPath == IF path \in SubPaths THEN subagentMap[path] ELSE ""
        isSubagent == mainSessionPath # ""
        key == IF isSubagent THEN mainSessionPath ELSE path
        exists == key \in MainPaths /\ sessions[key] # 0
        ptr == sessions[key]
        session == heap[ptr]
        opened == readOK /\ fs[path].exists
        info == [LastOf("handleFileUpdate", path) EXCEPT
                   !.oldOffset = offsets[path], !.oldLine = lineNumbers[path],
                   !.size = FileSize(fs[path].lines),
                   !.full = Len(Events) >= EventsCap]
    IN  IF ~exists
        THEN /\ last' = [info EXCEPT !.ok = FALSE, !.newOffset = offsets[path],
                                     !.newLine = lineNumbers[path]]
             /\ UNCHANGED <<heap, offsets, lineNumbers, sortedCacheValid, Events>>
        ELSE \E r \in {IF opened
                       THEN ParseSessionFileFrom(path, fs[path].lines, offsets[path],
                                                 lineNumbers[path], now)
                       ELSE ReadError(offsets[path], lineNumbers[path])} :
             IF errReturned(r)
             THEN /\ last' = [info EXCEPT !.ok = FALSE,
                                          !.failed = IF opened THEN "scan" ELSE "open",
                                          !.session = ptr,
                                          !.oldCommands = session.Commands,
                                          !.newOffset = offsets[path],
                                          !.newLine = lineNumbers[path]]
                  /\ UNCHANGED <<heap, offsets, lineNumbers, sortedCacheValid, Events>>
             ELSE LET s1 == [session EXCEPT
                               !.ProjectPath = IF r.meta.CWD # "" /\ @ # r.meta.CWD
                                               THEN r.meta.CWD ELSE @,
                               !.GitBranch = IF r.meta.GitBranch # "" /\ @ = ""
                                             THEN r.meta.GitBranch ELSE @]
                      s2 == [s1 EXCEPT !.Commands = @ \o r.commands,
                                       !.LastActivity = now, !.IsActive = TRUE]
                  IN
                  /\ offsets' = [offsets EXCEPT ![path] = r.newOffset]
                  /\ lineNumbers' = [lineNumbers EXCEPT ![path] = r.newLine]
                  /\ last' = [info EXCEPT !.session = ptr,
                                          !.failed = IF ~r.err THEN ""
                                                     ELSE IF opened THEN "scan"
                                                     ELSE "open",
                                          !.oldCommands = session.Commands,
                                          !.newCommands = r.commands,
                                          !.newOffset = r.newOffset,
                                          !.newLine = r.newLine,
                                          !.sent = Len(r.commands) > 0
                                                   /\ Len(Events) < EventsCap]
                  /\ IF Len(r.commands) = 0
                     THEN /\ heap' = [heap EXCEPT ![ptr] = s1]
                          /\ UNCHANGED <<sortedCacheValid, Events>>
                     ELSE /\ heap' = [heap EXCEPT ![ptr] = s2]
                          /\ sortedCacheValid' = FALSE
                          /\ Events' = trySend(Events,
                                               WatchEvent("new_commands", ptr, r.commands))

\* handleNewFile(path): what it does to the registry and to Events
handleNewFile(path) ==
    IF path \in SubPaths
    THEN LET mainSessionPath == MainOf(path)
             ptr == sessions[mainSessionPath]
             commands == ParseSessionFile(path, fs[path].lines, now).commands
         IN  IF ptr = 0
             THEN UNCHANGED <<heap, sessions, offsets, subagentMap, sortedCacheValid,
                              Events>>
             ELSE /\ subagentMap' = [subagentMap EXCEPT ![path] = mainSessionPath]
                  /\ offsets' = [offsets EXCEPT ![path] = FileSize(fs[path].lines)]
                  /\ UNCHANGED sessions
                  /\ IF Len(commands) > 0
                     THEN /\ heap' = [heap EXCEPT ![ptr] =
                                        [@ EXCEPT !.Commands = @ \o commands,
                                                  !.LastActivity = now,
                                                  !.IsActive = TRUE]]
                          /\ sortedCacheValid' = FALSE
                          /\ Events' = trySend(Events,
                                               WatchEvent("new_commands", ptr, commands))
                     ELSE UNCHANGED <<heap, sortedCacheValid, Events>>
    ELSE IF sessions[path] # 0 \/ parseSessionFile(path, ProjectDir) = {}
         THEN UNCHANGED <<heap, sessions, offsets, subagentMap, sortedCacheValid, Events>>
         ELSE \E s \in parseSessionFile(path, ProjectDir) :
                 /\ heap' = Append(heap, s)
                 /\ sessions' = [sessions EXCEPT ![path] = Len(heap) + 1]
                 /\ sortedCacheValid' = FALSE
                 /\ offsets' = [offsets EXCEPT ![path] = FileSize(fs[path].lines)]
                 /\ Events' = trySend(Events, WatchEvent("discovered", Len(heap) + 1, <<>>))
                 /\ UNCHANGED subagentMap

\* the record of a run of handleNewFile(path)
newFileRecord(path) ==
    LET info == [LastOf("handleNewFile", path) EXCEPT
                   !.oldOffset = offsets[path], !.oldLine = lineNumbers[path],
                   !.size = FileSize(fs[path].lines),
                   !.full = Len(Events) >= EventsCap]
    IN
    IF path \in SubPaths
    THEN LET ptr == sessions[MainOf(path)]
             commands == ParseSessionFile(path, fs[path].lines, now).commands
         IN  IF ptr = 0 THEN [info EXCEPT !.ok = FALSE]
             ELSE [info EXCEPT !.session = ptr,
                               !.oldCommands = heap[ptr].Commands,
                               !.newCommands = commands,
                               !.newOffset = FileSize(fs[path].lines),
                               !.sent = Len(commands) > 0 /\ Len(Events) < EventsCap]
    ELSE IF sessions[path] # 0 \/ parseSessionFile(path, ProjectDir) = {}
         THEN [info EXCEPT !.ok = FALSE]
         ELSE [info EXCEPT !.session = Len(heap) + 1,
                           !.newCommands = heap'[Len(heap) + 1].Commands,
                           !.newOffset = FileSize(fs[path].lines),
                           !.sent = Len(Events) < EventsCap]

\* one iteration of watchLoop that receives from fsWatcher.Events: handleFSEvent
HandleFSEvent(readOK) ==
    /\ loops > exited
    /\ canLock
    /\ fsEvents # <<>>
    /\ LET event == Head(fsEvents)
       IN  /\ fsEvents' = Tail(fsEvents)
           /\ IF event.op = "create" /\ DirExists(event.name)
              THEN /\ watched' = watched \cup {event.name}
                   /\ last' = LastOf("watchDir", event.name)
                   /\ UNCHANGED <<heap, sessions, offsets, lineNumbers, subagentMap,
                                  sortedCacheValid, Events, mu>>
              ELSE IF event.name \notin Paths \/ event.op \notin {"write", "create"}
              THEN /\ last' = LastOf("ignored", event.name)
                   /\ UNCHANGED <<watched, heap, sessions, offsets, lineNumbers,
                                  subagentMap, sortedCacheValid, Events, mu>>
              ELSE IF event.op = "write"
              THEN /\ handleFileUpdate(event.name, readOK)
                   /\ mu' = "watch"
                   /\ UNCHANGED <<watched, sessions, subagentMap>>
              ELSE /\ handleNewFile(event.name)
                   /\ last' = newFileRecord(event.name)
                   /\ mu' = "watch"
                   /\ UNCHANGED <<watched, lineNumbers>>
    /\ UNCHANGED <<fs, dirs, now, fsErrors, projectsDirs, sortedCache, Errors, loops,
                   uiVars, rd, px, done, exited, inFlight, muReaders, callers>>

\* the deferred w.mu.Unlock() of the handler the watch loop is in
Unlock ==
    /\ mu = "watch"
    /\ mu' = ""
    /\ UNCHANGED <<envVars, watched, projectsDirs, heap, sessions, offsets, lineNumbers,
                   subagentMap, sortedCache, sortedCacheValid, Events, Errors, loops,
                   last, uiVars, rd, px, done, exited, inFlight, muReaders, callers>>

\* Stop: close(w.done).  It takes no lock, so it can run while a handler does.
Stop ==
    /\ ~done
    /\ done' = TRUE
    /\ inFlight' = IF mu = "watch" THEN last ELSE NoLast
    /\ UNCHANGED <<envVars, regVars, last, uiVars, rd, px, exited, muReaders, callers>>

\* a watch loop that returns wherever it is
anywhere == TRUE

\* a watch loop is at its select: handleFSEvent is called from there and runs
\* to its end, deferred Unlock included, before the loop selects again
atSelect == mu # "watch" \/ loops - exited > 1

\* one iteration of watchLoop that receives from w.done: return
LoopReturn ==
    /\ done
    /\ exited < loops
    /\ atSelect
    /\ exited' = exited + 1
    /\ UNCHANGED <<envVars, regVars, last, uiVars, rd, px, done, inFlight, muReaders, callers>>

\* one iteration of watchLoop that receives from fsWatcher.Errors
ForwardError ==
    /\ loops > exited
    /\ mu = ""
    /\ fsErrors > 0
    /\ fsErrors' = fsErrors - 1
    /\ Errors' = IF Len(Errors) < ErrorsCap THEN Append(Errors, "err") ELSE Errors
    /\ last' = [LastOf("forwardError", "") EXCEPT !.full = Len(Errors) >= ErrorsCap]
    /\ UNCHANGED <<fs, dirs, now, fsEvents, watched, projectsDirs, heap, sessions,
                   offsets, lineNumbers, subagentMap, sortedCache, sortedCacheValid,
                   Events, loops, mu, uiVars, rd, px, done, exited, inFlight, muReaders, callers>>

\* the session pointers of the registry map, in PathOrder
RegisteredPtrs(sess) ==
    LET paths == SelectSeq(PathOrder, LAMBDA p : p \in MainPaths /\ sess[p] # 0)
    IN  [i \in 1..Len(paths) |-> sess[paths[i]]]

\* a rebuild that leaves the sessions in the order of the map iteration
rebuildUnsortedCache == {RegisteredPtrs(sessions)}

\* rebuildSortedCache: the slices it can build
rebuildSortedCache == SortByLastActivity(RegisteredPtrs(sessions), heap)

\* GetSessions, cache valid under the read lock: a copy of the cached slice
GetSessionsCached ==
    /\ mu = ""
    /\ uiPc = "idle"
    /\ sortedCacheValid
    /\ uiSessions' = sortedCache
    /\ last' = LastOf("GetSessions/cache", "")
    /\ UNCHANGED <<envVars, regVars, uiPc, uiSeen, rd, px, done, exited, inFlight, muReaders, callers>>

\* GetSessions, cache invalid under the read lock: release it, go for the write lock
GetSessionsMiss ==
    /\ mu = ""
    /\ uiPc = "idle"
    /\ ~sortedCacheValid
    /\ uiPc' = "lock"
    /\ last' = NoLast
    /\ UNCHANGED <<envVars, regVars, uiSessions, uiSeen, rd, px, done, exited, inFlight, muReaders, callers>>

\* GetSessions under the write lock: double-check, rebuild, copy
GetSessionsRebuild ==
    /\ canLock
    /\ uiPc = "lock"
    /\ IF sortedCacheValid
       THEN /\ uiSessions' = sortedCache
            /\ UNCHANGED <<sortedCache, sortedCacheValid>>
       ELSE \E c \in rebuildSortedCache :
               /\ sortedCache' = c
               /\ sortedCacheValid' = TRUE
               /\ uiSessions' = c
    /\ uiPc' = "idle"
    /\ last' = LastOf("GetSessions/rebuild", "")
    /\ UNCHANGED <<envVars, watched, projectsDirs, heap, sessions, offsets, lineNumbers,
                   subagentMap, Events, Errors, loops, mu, uiSeen, rd, px, done, exited, inFlight, muReaders, callers>>

\* a caller that goes for the write lock without giving up its read lock
keepRLock(readers, c) == readers

\* w.mu.RUnlock() of caller c
RUnlock(readers, c) == readers \ {c}

\* GetSessions of caller c, w.mu.RLock(): it waits while a task holds the write lock
CallRLock(c) ==
    /\ callers[c] = "idle"
    /\ mu = ""
    /\ muReaders' = muReaders \cup {c}
    /\ callers' = [callers EXCEPT ![c] = "rlock"]
    /\ last' = NoLast
    /\ UNCHANGED <<envVars, regVars, uiVars, rd, px, done, exited, inFlight>>

\* GetSessions of caller c under the read lock: a valid cache is copied and
\* returned; with an invalid one the caller leaves for the write lock
CallRead(c) ==
    /\ callers[c] = "rlock"
    /\ IF sortedCacheValid
       THEN /\ uiSessions' = sortedCache
            /\ muReaders' = muReaders \ {c}
            /\ callers' = [callers EXCEPT ![c] = "idle"]
            /\ last' = LastOf("GetSessions/cache", c)
       ELSE /\ muReaders' = RUnlock(muReaders, c)
            /\ callers' = [callers EXCEPT ![c] = "lock"]
            /\ last' = NoLast
            /\ UNCHANGED uiSessions
    /\ UNCHANGED <<envVars, regVars, uiPc, uiSeen, rd, px, done, exited, inFlight>>

\* GetSessions of caller c, w.mu.Lock()
CallLock(c) ==
    /\ callers[c] = "lock"
    /\ canLock
    /\ mu' = c
    /\ callers' = [callers EXCEPT ![c] = "wlock"]
    /\ last' = NoLast
    /\ UNCHANGED <<envVars, watched, projectsDirs, heap, sessions, offsets, lineNumbers,
                   subagentMap, sortedCache, sortedCacheValid, Events, Errors, loops,
                   uiVars, rd, px, done, exited, inFlight, muReaders>>

\* GetSessions of caller c under the write lock: double-check, rebuild, copy,
\* return through the deferred w.mu.Unlock()
CallRebuild(c) ==
    /\ callers[c] = "wlock"
    /\ IF sortedCacheValid
       THEN /\ uiSessions' = sortedCache
            /\ UNCHANGED <<sortedCache, sortedCacheValid>>
       ELSE \E cache \in rebuildSortedCache :
               /\ sortedCache' = cache
               /\ sortedCacheValid' = TRUE
               /\ uiSessions' = cache
    /\ mu' = ""
    /\ callers' = [callers EXCEPT ![c] = "idle"]
    /\ last' = LastOf("GetSessions/rebuild", c)
    /\ UNCHANGED <<envVars, watched, projectsDirs, heap, sessions, offsets, lineNumbers,
                   subagentMap, Events, Errors, loops, uiPc, uiSeen, rd, px, done,
                   exited, inFlight, muReaders>>

\* AddProjectsDir(dir)
AddProjectsDir(dir) ==
    /\ canLock
    /\ uiPc = "idle"
    /\ projectsDirs' = IF \E i \in 1..Len(projectsDirs) : projectsDirs[i] = dir
                       THEN projectsDirs ELSE Append(projectsDirs, dir)
    /\ last' = LastOf("AddProjectsDir", dir)
    /\ UNCHANGED <<envVars, watched, heap, sessions, offsets, lineNumbers, subagentMap,
                   sortedCache, sortedCacheValid, Events, Errors, loops, mu, uiVars,
                   rd, px, done, exited, inFlight, muReaders, callers>>

\* a refresh that also stamps every session with the time of the refresh
refreshTouching(h, paths) ==
    [i \in 1..Len(h) |-> [h[i] EXCEPT !.LastActivity = now]]

\* RefreshActivityStatus
RECURSIVE refreshActive(_, _)
refreshActive(h, paths) ==
    IF paths = <<>> THEN h
    ELSE LET path == Head(paths)
         IN  refreshActive(
                IF fs[path].exists
                THEN [h EXCEPT ![sessions[path]].IsActive =
                                  now - fs[path].mtime < ActiveWindow]
                ELSE h, Tail(paths))

RefreshActivityStatus ==
    /\ canLock
    /\ uiPc = "idle"
    /\ heap' = refreshActive(heap, SelectSeq(PathOrder,
                                LAMBDA p : p \in MainPaths /\ sessions[p] # 0))
    /\ last' = LastOf("RefreshActivityStatus", "")
    /\ UNCHANGED <<envVars, watched, projectsDirs, sessions, offsets, lineNumbers,
                   subagentMap, sortedCache, sortedCacheValid, Events, Errors, loops, mu,
                   uiVars, rd, px, done, exited, inFlight, muReaders, callers>>

\* a poll that tracks a new subagent file and reads it from then on, without
\* taking in what the file already holds
scanOneTrackOnly(r, subPath) ==
    [r EXCEPT !.subagentMap[subPath] = MainOf(subPath),
              !.offsets[subPath] = FileSize(fs[subPath].lines),
              !.watched = @ \cup {SubagentDir(MainOf(subPath))}]

\* ScanForNewSubagents: the untracked subagent files of the registered sessions
scanOne(r, subPath) ==
    LET mainPath == MainOf(subPath)
        ptr == r.sessions[mainPath]
        commands == ParseSessionFile(subPath, fs[subPath].lines, now).commands
        r1 == [r EXCEPT !.subagentMap[subPath] = mainPath,
                        !.offsets[subPath] = FileSize(fs[subPath].lines),
                        !.watched = @ \cup {SubagentDir(mainPath)}]
    IN  IF Len(commands) = 0 THEN r1
        ELSE [r1 EXCEPT !.heap[ptr] = [@ EXCEPT !.Commands = @ \o commands,
                                                !.LastActivity = now,
                                                !.IsActive = TRUE],
                        !.sortedCacheValid = FALSE,
                        !.events = trySend(@, WatchEvent("new_commands", ptr, commands))]

RECURSIVE scanAll(_, _)
scanAll(r, subs) ==
    IF subs = <<>> THEN r ELSE scanAll(scanOne(r, Head(subs)), Tail(subs))

UntrackedSubagents ==
    SelectSeq(PathOrder, LAMBDA p : /\ p \in SubPaths
                                    /\ fs[p].exists
                                    /\ sessions[MainOf(p)] # 0
                                    /\ subagentMap[p] = "")

ScanForNewSubagents ==
    /\ canLock
    /\ uiPc = "idle"
    /\ LET r == scanAll([heap |-> heap, sessions |-> sessions, offsets |-> offsets,
                         subagentMap |-> subagentMap, watched |-> watched,
                         sortedCacheValid |-> sortedCacheValid, events |-> Events],
                        UntrackedSubagents)
       IN  /\ heap' = r.heap
           /\ offsets' = r.offsets
           /\ subagentMap' = r.subagentMap
           /\ watched' = r.watched
           /\ sortedCacheValid' = r.sortedCacheValid
           /\ Events' = r.events
    /\ last' = [LastOf("ScanForNewSubagents", "") EXCEPT
                  !.ok = UntrackedSubagents # <<>>]
    /\ UNCHANGED <<envVars, projectsDirs, sessions, lineNumbers, sortedCache, Errors,
                   loops, mu, uiVars, rd, px, done, exited, inFlight, muReaders, callers>>

(***************************************************************************)
(* The UI reads the Commands field of a session it holds a pointer to,     *)
(* without any lock.  While the watch loop is inside a handler that        *)
(* appends a batch to that session the read races with the append: the     *)
(* slice header and the elements are plain memory, so the read can return  *)
(* the old list, the new list, or the new length over elements of the      *)
(* batch that are not written yet (zero values).                           *)
(***************************************************************************)
ZeroEntry ==
    [Timestamp |-> 0, ToolName |-> "", Pattern |-> "", RawCommand |-> "",
     SessionID |-> "", UUID |-> "", LineNumber |-> 0, FilePath |-> ""]

TornReads(old, batch) ==
    {old} \cup {old \o b : b \in {c \in [1..Len(batch) -> {ZeroEntry} \cup Range(batch)] :
                                    \A i \in 1..Len(batch) : c[i] \in {ZeroEntry, batch[i]}}}

\* the watch loop is inside a handler that appends to the session at ptr
Appending(ptr) ==
    /\ mu = "watch" /\ last.ok /\ last.session = ptr
    /\ Len(last.newCommands) > 0
    /\ heap[ptr].Commands = last.oldCommands \o last.newCommands

ReadCommands ==
    /\ uiPc = "idle"
    /\ \E i \in 1..Len(uiSessions) :
          LET ptr == uiSessions[i]
          IN  IF Appending(ptr)
              THEN \E got \in TornReads(last.oldCommands, last.newCommands) :
                      uiSeen' = [session |-> ptr, got |-> got,
                                 old |-> last.oldCommands, batch |-> last.newCommands]
              ELSE uiSeen' = [session |-> ptr, got |-> heap[ptr].Commands,
                              old |-> heap[ptr].Commands, batch |-> <<>>]
    /\ UNCHANGED <<envVars, regVars, last, uiSessions, uiPc, rd, px, done, exited, inFlight, muReaders, callers>>

\* the UI's watchSessionsCmd receives one event
ReceiveEvent ==
    /\ Events # <<>>
    /\ Events' = Tail(Events)
    /\ last' = IF mu = "" THEN NoLast ELSE last
    /\ UNCHANGED <<envVars, watched, projectsDirs, heap, sessions, offsets, lineNumbers,
                   subagentMap, sortedCache, sortedCacheValid, Errors, loops, mu,
                   uiVars, rd, px, done, exited, inFlight, muReaders, callers>>

(***************************************************************************)
(* The writer of a session file: it appends whole lines, or the first      *)
(* bytes of a line and the rest later.                                     *)
(***************************************************************************)
WithCR(L) == [L EXCEPT !.cr = TRUE]

AppendLine(lines, L) == Append(lines, L)

\* the first k bytes of the body of L, nothing else yet
AppendPartial(lines, L, k) == Append(lines, [L EXCEPT !.w = k, !.done = FALSE])

\* the rest of the body of the last line and its terminator
FinishLine(lines) ==
    LET L == lines[Len(lines)]
    IN  [lines EXCEPT ![Len(lines)] = [L EXCEPT !.w = L.n, !.done = TRUE]]

\* the notification of an operation on `name` in directory `dir`; the kernel
\* merges it with an identical notification that is still the last one queued
notify(q, dir, op, name) ==
    IF dir \notin watched THEN q
    ELSE IF Len(q) > 0 /\ q[Len(q)] = [op |-> op, name |-> name] THEN q
    ELSE Append(q, [op |-> op, name |-> name])

envFrame ==
    mu = "" /\ last' = NoLast
        /\ UNCHANGED <<fsErrors, regVars, uiVars, rd, px, done, exited, inFlight, muReaders, callers>>

MkDir(d) ==
    /\ Len(fsEvents) < MaxPending
    /\ ~dirs[d].exists
    /\ ParentDir(d) \in Dirs => dirs[ParentDir(d)].exists
    /\ dirs' = [dirs EXCEPT ![d] = [exists |-> TRUE, mtime |-> now]]
    /\ fsEvents' = notify(fsEvents, ParentDir(d), "create", d)
    /\ UNCHANGED <<fs, now>>
    /\ envFrame

CreateFile(p) ==
    /\ Len(fsEvents) < MaxPending
    /\ ~fs[p].exists
    /\ dirs[DirOf(p)].exists
    /\ fs' = [fs EXCEPT ![p] = [exists |-> TRUE, lines |-> <<>>, mtime |-> now]]
    /\ dirs' = [dirs EXCEPT ![DirOf(p)].mtime = now]
    /\ fsEvents' = notify(fsEvents, DirOf(p), "create", p)
    /\ UNCHANGED now
    /\ envFrame

WriteLine(p, L) ==
    /\ Len(fsEvents) < MaxPending
    /\ fs[p].exists
    /\ Len(fs[p].lines) < MaxLines
    /\ Terminated(fs[p].lines)
    /\ fs' = [fs EXCEPT ![p].lines = AppendLine(@, L), ![p].mtime = now]
    /\ fsEvents' = notify(fsEvents, DirOf(p), "write", p)
    /\ UNCHANGED <<dirs, now>>
    /\ envFrame

WritePartial(p, L, k) ==
    /\ Len(fsEvents) < MaxPending
    /\ fs[p].exists
    /\ Len(fs[p].lines) < MaxLines
    /\ Terminated(fs[p].lines)
    /\ fs' = [fs EXCEPT ![p].lines = AppendPartial(@, L, k), ![p].mtime = now]
    /\ fsEvents' = notify(fsEvents, DirOf(p), "write", p)
    /\ UNCHANGED <<dirs, now>>
    /\ envFrame

WriteRest(p) ==
    /\ Len(fsEvents) < MaxPending
    /\ fs[p].exists
    /\ ~Terminated(fs[p].lines)
    /\ fs' = [fs EXCEPT ![p].lines = FinishLine(@), ![p].mtime = now]
    /\ fsEvents' = notify(fsEvents, DirOf(p), "write", p)
    /\ UNCHANGED <<dirs, now>>
    /\ envFrame

\* the file is deleted
RemoveFile(p) ==
    /\ Len(fsEvents) < MaxPending
    /\ fs[p].exists
    /\ fs' = [fs EXCEPT ![p] = NoFile]
    /\ dirs' = [dirs EXCEPT ![DirOf(p)].mtime = now]
    /\ fsEvents' = notify(fsEvents, DirOf(p), "remove", p)
    /\ UNCHANGED now
    /\ envFrame

\* the writer appends a line to the main session file p while handleNewFile(p) is
\* between its parse of the file and its os.Stat: the handler, whose step is its
\* parse, records the size the file has after the append
WriteDuringHandler(p, L) ==
    /\ mu = "watch"
    /\ last.op = "handleNewFile" /\ last.path = p /\ last.ok
    /\ p \in MainPaths
    /\ Len(fsEvents) < MaxPending
    /\ Len(fs[p].lines) < MaxLines
    /\ Terminated(fs[p].lines)
    /\ fs' = [fs EXCEPT ![p].lines = AppendLine(@, L), ![p].mtime = now]
    /\ fsEvents' = notify(fsEvents, DirOf(p), "write", p)
    /\ offsets' = [offsets EXCEPT ![p] = FileSize(fs'[p].lines)]
    /\ UNCHANGED <<dirs, now, fsErrors, watched, projectsDirs, heap, sessions,
                   lineNumbers, subagentMap, sortedCache, sortedCacheValid, Events,
                   Errors, loops, mu, last, uiVars, rd, px, done, exited, inFlight,
                   muReaders, callers>>

Tick ==
    /\ now < MaxTime
    /\ now' = now + 1
    /\ UNCHANGED <<fs, dirs, fsEvents>>
    /\ envFrame

\* nothing happens for as long as the activity window
Sleep ==
    /\ now + ActiveWindow <= MaxClock
    /\ now' = now + ActiveWindow
    /\ UNCHANGED <<fs, dirs, fsEvents>>
    /\ envFrame

BackendError ==
    /\ fsErrors < MaxFsErrors
    /\ fsErrors' = fsErrors + 1
    /\ last' = NoLast
    /\ UNCHANGED <<fs, dirs, now, fsEvents, regVars, uiVars, rd, px, done, exited, inFlight, muReaders, callers>>

(***************************************************************************)
(* The registry: one main session file and one subagent file of it, the    *)
(* discover command, the watch loop, the subagent poll and the consumer of *)
(* the Events channel.                                                     *)
(***************************************************************************)
\* every line the assistant writes has a message uuid of its own
UuidOf(p, i) == p \o "#" \o ToString(i)

\* the next line the assistant writes to p: one Edit call
WriterLines(p) == {Rec(UuidOf(p, Len(fs[p].lines) + 1), 1, <<EditItem>>)}

Next ==
    \/ \E d \in Dirs \ {ProjectDir} : MkDir(d)
    \/ \E p \in {"m1", "s1"} : CreateFile(p)
    \/ \E p \in {"m1", "s1"} : \E L \in WriterLines(p) : WriteLine(p, L)
    \/ DiscoverSessions
    \/ \E readOK \in BOOLEAN : HandleFSEvent(readOK)
    \/ Unlock
    \/ ScanForNewSubagents
    \/ ReceiveEvent

Spec == Init /\ [][Next]_vars

(***************************************************************************)
(* The watch loop on one main session file: the discover command, the      *)
(* writer, the write and create events, the consumer of Events and the     *)
(* errors of the notification backend.                                     *)
(***************************************************************************)
WatchNext ==
    \/ CreateFile("m1")
    \/ \E L \in WriterLines("m1") : WriteLine("m1", L)
    \/ BackendError
    \/ DiscoverSessions
    \/ \E readOK \in BOOLEAN : HandleFSEvent(readOK)
    \/ Unlock
    \/ ForwardError
    \/ ReceiveEvent

SpecWatch == Init /\ [][WatchNext]_vars

(***************************************************************************)
(* The tail of one main session file: the writer appends records with and  *)
(* without a tool call, ended by "\n" or by "\r\n", in one write or in     *)
(* two, and the watch loop follows.                                        *)
(***************************************************************************)
TailLines(p) ==
    LET uuid == UuidOf(p, Len(fs[p].lines) + 1)
    IN  {Rec(uuid, 1, <<EditItem>>), WithCR(Rec(uuid, 1, <<EditItem>>)),
         Rec(uuid, 1, <<TextItem>>)}

TailNext ==
    \/ CreateFile("m1")
    \/ \E L \in TailLines("m1") : WriteLine("m1", L)
    \/ \E L \in TailLines("m1") : \E k \in 1..L.n : WritePartial("m1", L, k)
    \/ WriteRest("m1")
    \/ DiscoverSessions
    \/ \E readOK \in BOOLEAN : HandleFSEvent(readOK)
    \/ Unlock

SpecTail == Init /\ [][TailNext]_vars

(***************************************************************************)
(* The UI and the watch loop on one main session file: the writer, the     *)
(* discover command, the write and create events, GetSessions, the         *)
(* activity refresh of the tick and the UI's reads of command lists.       *)
(***************************************************************************)
\* the next line the assistant writes to p: one record with two tool calls
UILines(p) == {Rec(UuidOf(p, Len(fs[p].lines) + 1), 1, <<EditItem, WriteItem>>)}

RaceNext ==
    \/ CreateFile("m1")
    \/ \E L \in UILines("m1") : WriteLine("m1", L)
    \/ DiscoverSessions
    \/ \E readOK \in BOOLEAN : HandleFSEvent(readOK)
    \/ Unlock
    \/ GetSessionsCached
    \/ GetSessionsMiss
    \/ GetSessionsRebuild
    \/ RefreshActivityStatus
    \/ ReadCommands

SpecRace == Init /\ [][RaceNext]_vars

(***************************************************************************)
(* The order of the session list: two main session files, the clock, the   *)
(* writer, the discover command, the write and create events, GetSessions  *)
(* and the activity refresh of the tick.                                   *)
(***************************************************************************)
OrderNext ==
    \/ \E p \in MainPaths : CreateFile(p)
    \/ \E p \in MainPaths :
          /\ Len(fs[p].lines) < MaxOrderLines
          /\ \E L \in WriterLines(p) : WriteLine(p, L)
    \/ Tick
    \/ DiscoverSessions
    \/ \E readOK \in BOOLEAN : HandleFSEvent(readOK)
    \/ Unlock
    \/ GetSessionsCached
    \/ GetSessionsMiss
    \/ GetSessionsRebuild
    \/ RefreshActivityStatus

SpecOrder == Init /\ [][OrderNext]_vars

(***************************************************************************)
(* Reader harness: one file and one client that calls ParseSessionFileFrom *)
(* with the offset and line number the previous call returned.             *)
(***************************************************************************)
RdLines == {Rec("u1", 1, <<EditItem>>), Rec("u2", 1, <<EditItem, WriteItem>>),
            WithCR(Rec("u2", 1, <<EditItem>>)), Garbage}

RdAppend(L) ==
    /\ Len(rd.lines) < MaxLines
    /\ Terminated(rd.lines)
    /\ rd' = [rd EXCEPT !.lines = AppendLine(@, L), !.grown = TRUE]
    /\ UNCHANGED <<envVars, regVars, uiVars, last, px, done, exited, inFlight, muReaders, callers>>

RdPartial(L, k) ==
    /\ Len(rd.lines) < MaxLines
    /\ Terminated(rd.lines)
    /\ rd' = [rd EXCEPT !.lines = AppendPartial(@, L, k), !.grown = TRUE]
    /\ UNCHANGED <<envVars, regVars, uiVars, last, px, done, exited, inFlight, muReaders, callers>>

RdFinish ==
    /\ ~Terminated(rd.lines)
    /\ rd' = [rd EXCEPT !.lines = FinishLine(@), !.grown = TRUE]
    /\ UNCHANGED <<envVars, regVars, uiVars, last, px, done, exited, inFlight, muReaders, callers>>

RdCall ==
    /\ rd.calls < MaxReads
    /\ LET r == ParseSessionFileFrom("f", rd.lines, rd.offset, rd.line, now)
       IN  rd' = [rd EXCEPT !.offset = r.newOffset, !.line = r.newLine,
                            !.calls = @ + 1, !.grown = FALSE,
                            !.boundary = @ /\ Terminated(rd.lines),
                            !.got = @ \o r.commands, !.out = r.commands,
                            !.pre = [offset |-> rd.offset, line |-> rd.line,
                                     grown |-> rd.grown]]
    /\ UNCHANGED <<envVars, regVars, uiVars, last, px, done, exited, inFlight, muReaders, callers>>

RdNext ==
    \/ \E L \in RdLines : RdAppend(L)
    \/ \E L \in RdLines : \E k \in 1..L.n : RdPartial(L, k)
    \/ RdFinish
    \/ RdCall

SpecReader == Init /\ [][RdNext]_vars

\* C2: a call of the incremental reader with the offset and line number the
\* previous call returned, the file not having grown in between, yields no
\* entries and returns the offset and line number it was given.
C2_OffsetIdempotent ==
    (rd.calls >= 2 /\ ~rd.pre.grown) =>
        /\ rd.out = <<>>
        /\ rd.offset = rd.pre.offset
        /\ rd.line = rd.pre.line

\* C3: parsing the file in one pass gives the same ordered entries as parsing
\* it up to a line boundary and resuming from the returned offset and line
\* number, the two results concatenated.
C3_Resumable ==
    (rd.calls = 2 /\ rd.boundary /\ ~rd.grown) =>
        rd.got = ParseSessionFile("f", rd.lines, now).commands

(***************************************************************************)
(* The watch loop's handling of one write event.                           *)
(***************************************************************************)
\* this step is the watch loop running handleFileUpdate(path) to its last statement
UpdateStep(path) ==
    /\ mu = "" /\ mu' = "watch"
    /\ last'.op = "handleFileUpdate" /\ last'.path = path /\ last'.ok

\* what the incremental reader returns to handleFileUpdate(path) in this state
ReadFrom(path) ==
    ParseSessionFileFrom(path, fs[path].lines, offsets[path], lineNumbers[path], now)

\* the stored offset of path is the first byte of the last line of the file, and that
\* line is a complete record with exactly one tool call
OneNewToolUseLine(path) ==
    LET lines == fs[path].lines
        n == Len(lines)
    IN  /\ n >= 1
        /\ offsets[path] = FileSize(SubSeq(lines, 1, n - 1))
        /\ lines[n].done /\ lines[n].json /\ ~lines[n].cr
        /\ lines[n].type = "assistant" /\ lines[n].hasMessage
        /\ Len(lines[n].items) = 1
        /\ lines[n].items[1].type = "tool_use"
        /\ ShouldInclude(lines[n].items[1].name)

\* ev is a new_commands event for session s that carries the tool call of line L of
\* path, and only it
CarriesLine(ev, s, path, L) ==
    /\ ev.Type = "new_commands" /\ ev.Session = s
    /\ Len(ev.Commands) = 1
    /\ ev.Commands[1].UUID = L.uuid
    /\ ev.Commands[1].ToolName = L.items[1].name
    /\ ev.Commands[1].FilePath = path

CountUpByOne(path) ==
    LET s == sessions[path]
    IN  /\ sessions'[path] = s
        /\ Len(heap'[s].Commands) = Len(heap[s].Commands) + 1
        /\ SubSeq(heap'[s].Commands, 1, Len(heap[s].Commands)) = heap[s].Commands

\* C6 (as stated): after discovery and Start, one tool_use line appended to a tracked
\* session file and one write notification give exactly one new_commands event with
\* exactly the appended entry, and the session's command count is up by exactly one.
C6_OneLineOneEvent ==
    [][\A path \in MainPaths :
          (UpdateStep(path) /\ OneNewToolUseLine(path)) =>
              /\ Len(Events') = Len(Events) + 1
              /\ SubSeq(Events', 1, Len(Events)) = Events
              /\ CarriesLine(Events'[Len(Events')], sessions[path], path,
                             fs[path].lines[Len(fs[path].lines)])
              /\ CountUpByOne(path)]_vars

\* C6 (amended): the same, unless the Events buffer is already full when the handler
\* runs: then no event is emitted, and the command count is still up by exactly one.
C6_OneLineOneEventUnlessFull ==
    [][\A path \in MainPaths :
          (UpdateStep(path) /\ OneNewToolUseLine(path)) =>
              /\ IF Len(Events) < EventsCap
                 THEN /\ Len(Events') = Len(Events) + 1
                      /\ SubSeq(Events', 1, Len(Events)) = Events
                      /\ CarriesLine(Events'[Len(Events')], sessions[path], path,
                                     fs[path].lines[Len(fs[path].lines)])
                 ELSE Events' = Events
              /\ CountUpByOne(path)]_vars

\* a handler has just emitted the event of one appended line behind an event that
\* was still in the buffer
C6_Witness ==
    /\ mu = "watch" /\ last.op = "handleFileUpdate" /\ last.ok /\ last.sent
    /\ last.newLine = last.oldLine + 1
    /\ Len(last.newCommands) = 1 /\ Len(last.oldCommands) = 1
    /\ Len(Events) = 2

\* C7: with the Events buffer full, a handler that has new commands appends them to
\* the session, stores the reader's offset and drops only the event; with Events
\* full the watch loop can still handle the next notification and release its lock,
\* with Errors full or not it can still take the next backend error, and a full
\* Errors buffer is left as it is.
C7_LossyNotBlocking ==
    /\ [](loops > 0 /\ mu = "" /\ fsEvents # <<>> /\ Len(Events) >= EventsCap
            => ENABLED HandleFSEvent(TRUE))
    /\ [](loops > 0 /\ mu = "" /\ fsErrors > 0 => ENABLED ForwardError)
    /\ [](mu # "" => ENABLED Unlock)
    /\ [][\A path \in MainPaths :
            (UpdateStep(path) /\ Len(ReadFrom(path).commands) > 0
                              /\ Len(Events) >= EventsCap) =>
                /\ Events' = Events
                /\ heap'[sessions[path]].Commands =
                       heap[sessions[path]].Commands \o ReadFrom(path).commands
                /\ offsets'[path] = ReadFrom(path).newOffset
                /\ lineNumbers'[path] = ReadFrom(path).newLine]_vars
    /\ [][(fsErrors' < fsErrors /\ Len(Errors) >= ErrorsCap) => Errors' = Errors]_vars

\* a handler had new commands while the Events buffer was full
C7_Witness ==
    /\ mu = "watch" /\ last.op = "handleFileUpdate" /\ last.ok /\ last.full
    /\ Len(last.newCommands) > 0
    /\ heap[last.session].Commands = last.oldCommands \o last.newCommands

(***************************************************************************)
(* The command list of a registered session.                               *)
(***************************************************************************)
\* the command list of the session registered for main path p
CommandsOf(h, sess, p) == h[sess[p]].Commands

\* no two entries of the list have the same message uuid and tool name
UniqueKeys(commands) ==
    \A i, j \in 1..Len(commands) :
        (commands[i].UUID = commands[j].UUID
            /\ commands[i].ToolName = commands[j].ToolName) => i = j

\* C1: in every reachable state, the pair (message uuid, tool name) is unique in the
\* command list of every registered session.
C1_UniqueKey ==
    \A p \in MainPaths : sessions[p] # 0 => UniqueKeys(CommandsOf(heap, sessions, p))

\* the number of entries of the list with the key of entry e
Occurrences(commands, e) ==
    Cardinality({i \in 1..Len(commands) :
                    commands[i].UUID = e.UUID /\ commands[i].ToolName = e.ToolName})

\* C5: no step (write event, create event, subagent poll, repeated discovery) makes
\* the command list of a registered main-session path shorter or removes an entry
\* that was recorded.
C5_AppendOnly ==
    [][\A p \in MainPaths :
          (sessions[p] # 0 /\ sessions'[p] # 0) =>
              LET old == CommandsOf(heap, sessions, p)
                  new == CommandsOf(heap', sessions', p)
              IN  /\ Len(new) >= Len(old)
                  /\ \A i \in 1..Len(old) :
                        Occurrences(new, old[i]) >= Occurrences(old, old[i])]_vars

(***************************************************************************)
(* The stored offset after a write event.                                  *)
(***************************************************************************)
\* C4: a write event for a tracked path whose read succeeds stores the offset and
\* the line number the reader returned, new entries or not, and the stored offset is
\* then past every byte of the file the reader has scanned, so that a later write
\* event starts behind them.
C4_OffsetAdvances ==
    [][\A path \in Paths :
          UpdateStep(path) =>
              /\ offsets'[path] = ReadFrom(path).newOffset
              /\ lineNumbers'[path] = ReadFrom(path).newLine
              /\ offsets'[path] >= FileSize(fs[path].lines)]_vars

(***************************************************************************)
(* What the UI holds after GetSessions.                                    *)
(***************************************************************************)
\* C8: a read of a session's command list without any lock, through a pointer that
\* GetSessions returned, yields the list before the batch that is being appended or
\* the list with the whole batch.
C8_NoPartialBatch ==
    uiSeen.got \in {uiSeen.old, uiSeen.old \o uiSeen.batch}

\* C9: as long as the UI keeps the slice it got, no step of the watcher changes a
\* session reachable from it.
C9_CopyNotReference ==
    [][uiSessions' = uiSessions =>
          \A i \in 1..Len(uiSessions) : heap'[uiSessions[i]] = heap[uiSessions[i]]]_vars

GotSessions == last.op \in {"GetSessions/cache", "GetSessions/rebuild"}

\* C10: the slice GetSessions returns, from the cache or after a rebuild, holds every
\* registered session exactly once, in descending order of LastActivity.
C10_SortedSnapshot ==
    GotSessions =>
        /\ Len(uiSessions) = Cardinality({p \in MainPaths : sessions[p] # 0})
        /\ \A p \in MainPaths :
              sessions[p] # 0 =>
                  Cardinality({i \in 1..Len(uiSessions) : uiSessions[i] = sessions[p]}) = 1
        /\ \A i \in 1..(Len(uiSessions) - 1) :
              heap[uiSessions[i]].LastActivity >= heap[uiSessions[i + 1]].LastActivity

\* GetSessions served two sessions from the cache, the later registered path first
C10_Witness ==
    /\ last.op = "GetSessions/cache"
    /\ Len(uiSessions) = 2
    /\ uiSessions[1] = sessions["m2"] /\ uiSessions[2] = sessions["m1"]
    /\ heap[uiSessions[1]].LastActivity > heap[uiSessions[2]].LastActivity

(***************************************************************************)
(* Failing reads: one session file whose writer appends ordinary lines and *)
(* lines longer than the scanner's buffer, reads that fail in os.Open or   *)
(* file.Seek, and backend errors.                                          *)
(***************************************************************************)
\* a complete line whose body does not fit into the scanner's buffer
HugeLine(uuid) ==
    [Rec(uuid, 1, <<EditItem>>) EXCEPT !.n = MaxTokenSize + 1, !.w = MaxTokenSize + 1]

ErrLines(p) ==
    {Rec(UuidOf(p, Len(fs[p].lines) + 1), 1, <<EditItem>>),
     HugeLine(UuidOf(p, Len(fs[p].lines) + 1))}

HasHugeLine(lines) == \E i \in 1..Len(lines) : lines[i].n >= MaxTokenSize

ErrNext ==
    \/ CreateFile("m1")
    \/ \E L \in ErrLines("m1") : WriteLine("m1", L)
    \/ BackendError
    \/ DiscoverSessions
    \/ \E readOK \in BOOLEAN : HandleFSEvent(readOK)
    \/ Unlock
    \/ ForwardError
    \/ ReceiveEvent

SpecErr == Init /\ [][ErrNext]_vars

\* the watch loop handles a write notification for path and the read fails
ReadFailed(path) ==
    /\ mu = "" /\ mu' = "watch"
    /\ last'.op = "handleFileUpdate" /\ last'.path = path
    /\ last'.failed # ""

\* C12: when the read a write notification triggers fails (open, seek or
\* scan error) nothing changes: the offset and line number stored for the
\* path, every session's fields, the registry and the Events channel are what
\* they were before the notification.
C12_FailedReadNoChange ==
    [][\A path \in Paths :
          ReadFailed(path) =>
             /\ offsets' = offsets
             /\ lineNumbers' = lineNumbers
             /\ heap' = heap
             /\ sessions' = sessions
             /\ subagentMap' = subagentMap
             /\ sortedCacheValid' = sortedCacheValid
             /\ Events' = Events]_vars

\* a scan error after a line that was read: the reader had results to return
C12_Witness ==
    /\ mu = "watch" /\ last.op = "handleFileUpdate" /\ last.failed = "scan"
    /\ Len(fs[last.path].lines) = 2
    /\ ~HasHugeLine(<<fs[last.path].lines[1]>>)
    /\ last.oldOffset = 0

\* C13: when the read a write notification triggers fails, an error value is
\* sent on the Errors channel unless the channel is full.
C13_FailedReadReported ==
    [][\A path \in Paths :
          ReadFailed(path) =>
             \/ Len(Errors) >= ErrorsCap
             \/ Len(Errors') = Len(Errors) + 1]_vars

\* C15: a line longer than the scanner's buffer is not fatal: discovery
\* registers every session file that exists, and a write notification whose
\* read does not fail in open or seek moves the stored offset to the end of the
\* file (the writer appends whole lines ending in "\n").
C15_OversizedLineNotFatal ==
    [][/\ (last'.op = "DiscoverSessions" /\ loops' = loops + 1) =>
             \A p \in MainPaths : fs[p].exists => sessions'[p] # 0
       /\ \A path \in Paths :
             (/\ mu = "" /\ mu' = "watch"
              /\ last'.op = "handleFileUpdate" /\ last'.path = path
              /\ last'.session # 0 /\ last'.failed # "open")
                => offsets'[path] = FileSize(fs[path].lines)]_vars

(***************************************************************************)
(* The record parser on whole files: lines that do not decode, records     *)
(* with several tool calls, records without any.                           *)
(***************************************************************************)
EditItem2 == [EditItem EXCEPT !.input = [NoInput EXCEPT !.file_path = "/tmp/c.go"]]

ParseLines ==
    {Rec("u1", 1, <<EditItem>>), Rec("u2", 1, <<EditItem, EditItem2>>),
     Rec("u3", 1, <<EditItem, WriteItem>>), Rec("u4", 1, <<TextItem>>), Garbage}

ParseNext ==
    \/ \E L \in ParseLines : RdAppend(L)
    \/ RdCall

SpecParse == Init /\ [][ParseNext]_vars

\* the file with every line that is not JSON replaced by a record of the
\* same length that carries no tool call
NoToolCall(lines) ==
    [i \in 1..Len(lines) |->
        IF lines[i].json THEN lines[i]
        ELSE [lines[i] EXCEPT !.json = TRUE, !.type = "assistant", !.hasMessage = TRUE,
                              !.items = <<TextItem>>]]

\* C14: a line that fails JSON decoding is skipped, it never aborts the file:
\* a call of the reader returns the entries, the offset and the line number
\* it returns for the file in which every such line is a record without a tool
\* call, so the line yields no entry and the offset and the line counter
\* advance past it.
C14_MalformedLineSkipped ==
    [][rd'.calls = rd.calls + 1 =>
          LET r == ParseSessionFileFrom("f", NoToolCall(rd.lines), rd.offset, rd.line, now)
          IN  /\ rd'.out = r.commands
              /\ rd'.offset = r.newOffset
              /\ rd'.line = r.newLine
              /\ rd'.offset = FileSize(rd.lines)]_vars

\* a call has read a line that does not decode and then a line with a tool call
C14_Witness ==
    /\ rd.calls = 1 /\ Len(rd.lines) = 2
    /\ ~rd.lines[1].json /\ rd.lines[2].json
    /\ Len(rd.out) = 1 /\ rd.out[1].LineNumber = 2

\* the first tool call named `name` of a record
FirstItem(items, name) ==
    items[CHOOSE k \in 1..Len(items) :
             /\ items[k].type = "tool_use" /\ items[k].name = name
             /\ \A j \in 1..(k - 1) :
                   ~(items[j].type = "tool_use" /\ items[j].name = name)]

\* the first line of the file that holds the record with message uuid u
FirstLine(lines, u) ==
    CHOOSE i \in 1..Len(lines) :
       /\ lines[i].json /\ lines[i].uuid = u
       /\ \A j \in 1..(i - 1) : ~(lines[j].json /\ lines[j].uuid = u)

\* C16: the displayed tool calls of one assistant record (one message uuid)
\* yield exactly one entry per tool name: for two calls of the same name the
\* entry of the first, and an entry of its own for every other name.
C16_OneEntryPerUuidAndTool ==
    (rd.calls = 1 /\ ~rd.grown) =>
       \A i \in 1..Len(rd.lines) :
          \A k \in 1..Len(rd.lines[i].items) :
             LET L == rd.lines[i]
                 it == L.items[k]
                 mine == {e \in 1..Len(rd.got) :
                             rd.got[e].UUID = L.uuid /\ rd.got[e].ToolName = it.name}
             IN  (L.json /\ it.type = "tool_use" /\ ShouldInclude(it.name)) =>
                    /\ Cardinality(mine) = 1
                    /\ \A e \in mine :
                          /\ rd.got[e].LineNumber = FirstLine(rd.lines, L.uuid)
                          /\ rd.got[e].RawCommand =
                                FirstItem(rd.lines[FirstLine(rd.lines, L.uuid)].items,
                                          it.name).input.file_path

\* a record with two Edit calls has been parsed into one entry, and a record
\* with an Edit and a Write call into two
C16_Witness ==
    /\ rd.calls = 1 /\ ~rd.grown /\ Len(rd.lines) = 2
    /\ rd.lines[1].items = <<EditItem, EditItem2>>
    /\ rd.lines[2].items = <<EditItem, WriteItem>>
    /\ Len(rd.got) = 3

(***************************************************************************)
(* Activity: a session file and a subagent file of it, a clock that can    *)
(* pass the activity window, the UI's tick (RefreshActivityStatus) and its *)
(* calls of GetSessions.                                                   *)
(***************************************************************************)
ActiveNext ==
    \/ \E d \in Dirs \ {ProjectDir} : MkDir(d)
    \/ \E p \in {"m1", "s1"} : CreateFile(p)
    \/ \E p \in {"m1", "s1"} :
          /\ Len(fs[p].lines) < MaxOrderLines
          /\ \E L \in WriterLines(p) : WriteLine(p, L)
    \/ Sleep
    \/ DiscoverSessions
    \/ \E readOK \in BOOLEAN : HandleFSEvent(readOK)
    \/ Unlock
    \/ GetSessionsCached
    \/ GetSessionsMiss
    \/ GetSessionsRebuild
    \/ RefreshActivityStatus

SpecActive == Init /\ [][ActiveNext]_vars

\* a step that appends commands to a session, adds a session to the registry
\* or changes the active flag of a session
RegistryMutation ==
    \/ sessions' # sessions
    \/ Len(heap') # Len(heap)
    \/ \E i \in 1..Len(heap) :
          \/ heap'[i].Commands # heap[i].Commands
          \/ heap'[i].IsActive # heap[i].IsActive

\* C11: every step that appends commands, adds a session or changes an
\* active flag (RefreshActivityStatus) leaves the sorted cache marked invalid
\* when it releases the write lock.
C11_MutationInvalidatesCache ==
    [][RegistryMutation => ~sortedCacheValid']_vars

\* the files that contribute to the session of main file p
Contributing(p) == {p} \cup {sub \in SubPaths : subagentMap[sub] = p}

\* C17: after RefreshActivityStatus a session is active exactly if one of
\* its contributing files (the main file, a tracked subagent file) was
\* modified less than the activity window ago.
C17_ActiveIffRecentFile ==
    [][last'.op = "RefreshActivityStatus" =>
          \A p \in MainPaths :
             (sessions[p] # 0 /\ fs[p].exists) =>
                (heap'[sessions[p]].IsActive <=>
                    \E f \in Contributing(p) :
                       fs[f].exists /\ now - fs[f].mtime < ActiveWindow)]_vars

(***************************************************************************)
(* Timestamps: one session file whose lines carry a timestamp or none (the *)
(* parser then takes the time of the parse), the directories beside it,    *)
(* and a clock.                                                            *)
(***************************************************************************)
StampLines(p) ==
    {Rec(UuidOf(p, Len(fs[p].lines) + 1), ts, <<EditItem>>) : ts \in {0, 1}}

StampNext ==
    \/ \E d \in Dirs \ {ProjectDir} : MkDir(d)
    \/ CreateFile("m1")
    \/ \E L \in StampLines("m1") : WriteLine("m1", L)
    \/ Tick
    \/ Sleep
    \/ DiscoverSessions
    \/ \E readOK \in BOOLEAN : HandleFSEvent(readOK)
    \/ Unlock

SpecStamp == Init /\ [][StampNext]_vars

MaxOf(S) == CHOOSE x \in S : \A y \in S : y <= x

\* C18: a session built by discovery has lastActivity equal to the maximum of
\* the main file's mtime, the timestamps of its commands and, when the
\* subagents directory exists, that directory's mtime.
C18_LastActivityIsMax ==
    [][(last'.op = "DiscoverSessions" /\ loops' = loops + 1) =>
          \A p \in MainPaths :
             sessions'[p] # 0 =>
                LET s == heap'[sessions'[p]]
                IN  s.LastActivity =
                       MaxOf({fs[p].mtime}
                             \cup {s.Commands[i].Timestamp : i \in 1..Len(s.Commands)}
                             \cup (IF DirExists(SubagentDir(p))
                                   THEN {dirs[SubagentDir(p)].mtime} ELSE {}))]_vars

\* the line of file p that holds the record with message uuid u
LineOf(p, u) == CHOOSE i \in 1..Len(fs[p].lines) : fs[p].lines[i].uuid = u

\* C19: in the command list of a session, two entries that come from the
\* same file are in the order of their lines in that file.  The statement
\* is taken on entries with different timestamps, where the result of
\* sort.Slice does not depend on how it orders equal elements.
C19_FileOrder ==
    \A p \in MainPaths :
       sessions[p] # 0 =>
          LET c == heap[sessions[p]].Commands
          IN  \A i, j \in 1..Len(c) :
                 (i < j /\ c[i].FilePath = c[j].FilePath
                        /\ c[i].Timestamp # c[j].Timestamp) =>
                    LineOf(c[i].FilePath, c[i].UUID) <= LineOf(c[j].FilePath, c[j].UUID)

\* C20: at most one watchLoop goroutine exists for the Watcher.
C20_SingleWatchLoop == loops <= 1

(***************************************************************************)
(* Pattern harness: a client builds a shell command from prefixes, a base  *)
(* command and arguments, and calls ExtractPattern on it.                  *)
(***************************************************************************)
WrapperPhrases == {<<"time">>, <<"nice", "-n", "10">>, <<"nohup">>, <<"env", "A=1">>,
                   <<"xargs">>}
PrefixPhrases == {<<"FOO=1">>, <<"BAR=2">>, <<"sudo">>} \cup WrapperPhrases
BaseCommands == {"git", "rm", "go", "make"}
ArgTokens == {"status", "-rf", "/tmp/x", "test", "./...", "build", "push", "-C", "/path"}
ToolNames == {"Bash", "Edit", "Task"}

RECURSIVE Flatten(_)
Flatten(phrases) ==
    IF phrases = <<>> THEN <<>> ELSE Head(phrases) \o Flatten(Tail(phrases))

PxPrefix(w) ==
    /\ ~px.called
    /\ Len(px.wraps) < MaxWraps
    /\ px' = [px EXCEPT !.wraps = Append(@, w)]
    /\ UNCHANGED <<envVars, regVars, uiVars, last, rd, done, exited, inFlight, muReaders, callers>>

PxBase(b) ==
    /\ ~px.called
    /\ px.cmd = <<>>
    /\ px' = [px EXCEPT !.cmd = <<b>>]
    /\ UNCHANGED <<envVars, regVars, uiVars, last, rd, done, exited, inFlight, muReaders, callers>>

PxArg(a) ==
    /\ ~px.called
    /\ px.cmd # <<>>
    /\ Len(px.cmd) <= MaxArgs
    /\ px' = [px EXCEPT !.cmd = Append(@, a)]
    /\ UNCHANGED <<envVars, regVars, uiVars, last, rd, done, exited, inFlight, muReaders, callers>>

PxPad ==
    /\ ~px.called
    /\ px.pad = ""
    /\ px' = [px EXCEPT !.pad = "  "]
    /\ UNCHANGED <<envVars, regVars, uiVars, last, rd, done, exited, inFlight, muReaders, callers>>

PxCall(toolName) ==
    /\ ~px.called
    /\ \E input \in {px.pad \o Join(Flatten(px.wraps) \o px.cmd, " ")} :
          px' = [px EXCEPT !.called = TRUE, !.toolName = toolName, !.input = input,
                           !.pattern = ExtractPattern(toolName, input)]
    /\ UNCHANGED <<envVars, regVars, uiVars, last, rd, done, exited, inFlight, muReaders, callers>>

PatternNext ==
    \/ \E w \in PrefixPhrases : PxPrefix(w)
    \/ \E b \in BaseCommands : PxBase(b)
    \/ \E a \in ArgTokens : PxArg(a)
    \/ PxPad
    \/ \E t \in ToolNames : PxCall(t)

SpecPattern == Init /\ [][PatternNext]_vars

\* C28: ExtractPattern gives the stated results: "git status" gives
\* "Bash(git:status:*)", "sudo rm -rf /tmp/x" gives "Bash(sudo:rm:*)",
\* "FOO=1 BAR=2 go test ./..." gives "Bash(go:test:*)", an empty or
\* whitespace-only command gives "Bash", and a tool other than Bash gives
\* its own name whatever the input is.
C28_ExtractPatternResults ==
    px.called =>
       /\ px.toolName # "Bash" => px.pattern = px.toolName
       /\ px.toolName = "Bash" =>
             /\ px.input = "git status" => px.pattern = "Bash(git:status:*)"
             /\ px.input = "sudo rm -rf /tmp/x" => px.pattern = "Bash(sudo:rm:*)"
             /\ px.input = "FOO=1 BAR=2 go test ./..." => px.pattern = "Bash(go:test:*)"
             /\ px.input \in {"", "  "} => px.pattern = "Bash"

C28_Witness ==
    /\ px.called /\ px.toolName = "Bash"
    /\ px.input = "FOO=1 BAR=2 go test ./..."
    /\ px.pattern = "Bash(go:test:*)"

\* C29: a command behind any chain of known wrappers has the pattern of the
\* innermost wrapped command alone.
C29_WrappersUnwrappedRecursively ==
    (/\ px.called /\ px.toolName = "Bash" /\ px.pad = ""
     /\ px.cmd # <<>>
     /\ \A i \in 1..Len(px.wraps) : px.wraps[i] \in WrapperPhrases)
       => px.pattern = ExtractPattern("Bash", Join(px.cmd, " "))

\* the first argument that does not start with '-'
FirstNonFlag(args) ==
    args[CHOOSE i \in 1..Len(args) :
            /\ Char(args[i], 1) # "-"
            /\ \A j \in 1..(i - 1) : Char(args[j], 1) = "-"]

\* C30: for a base command of the depth-1 table the subcommand part of the
\* pattern is the first argument that does not start with '-'; when every
\* argument is a flag, or the base command is not in the table, the pattern
\* holds the command name only.
C30_SubcommandIsFirstNonFlag ==
    (px.called /\ px.toolName = "Bash" /\ px.wraps = <<>> /\ px.cmd # <<>>) =>
       LET base == Head(px.cmd)
           args == Tail(px.cmd)
       IN  px.pattern =
              IF base \in Depth1Commands
                    /\ \E i \in 1..Len(args) : Char(args[i], 1) # "-"
              THEN "Bash(" \o base \o ":" \o FirstNonFlag(args) \o ":*)"
              ELSE "Bash(" \o base \o ":*)"

C30_Witness ==
    /\ px.called /\ px.toolName = "Bash"
    /\ px.input = "git -C /path"
    /\ px.pattern = "Bash(git:/path:*)"

\* C21: the LineNumber of every entry of a command list is the 1-indexed
\* number, in the entry's source file, of the line that holds its tool_use,
\* for the entries of discovery and for the entries of incremental reads.
C21_LineNumberIsFileLine ==
    \A p \in MainPaths :
       sessions[p] # 0 =>
          LET c == heap[sessions[p]].Commands
          IN  \A i \in 1..Len(c) :
                 /\ c[i].LineNumber \in 1..Len(fs[c[i].FilePath].lines)
                 /\ fs[c[i].FilePath].lines[c[i].LineNumber].uuid = c[i].UUID

(***************************************************************************)
(* Two main session files that appear while the watch loop runs.           *)
(***************************************************************************)
CreateNext ==
    \/ \E p \in MainPaths : CreateFile(p)
    \/ \E p \in MainPaths :
          /\ Len(fs[p].lines) < MaxOrderLines
          /\ \E L \in WriterLines(p) : WriteLine(p, L)
    \/ DiscoverSessions
    \/ HandleFSEvent(TRUE)
    \/ Unlock
    \/ ReceiveEvent

SpecCreate == Init /\ [][CreateNext]_vars

\* a create event for the main session file p that is not tracked and parses
\* has been handled
NewMainFile(p) ==
    /\ last'.op = "handleNewFile" /\ last'.path = p
    /\ sessions[p] = 0
    /\ parseSessionFile(p, ProjectDir) # {}

\* exactly one session is registered, under p, and the offset of p is recorded
RegisteredOne(p) ==
    /\ Len(heap') = Len(heap) + 1
    /\ sessions' = [sessions EXCEPT ![p] = Len(heap) + 1]
    /\ heap'[Len(heap) + 1] \in parseSessionFile(p, ProjectDir)
    /\ \A i \in 1..Len(heap) : heap'[i] = heap[i]
    /\ offsets' = [offsets EXCEPT ![p] = FileSize(fs[p].lines)]

\* C22: a create event for an untracked main session file that parses
\* registers exactly one session under that path, records the file's offset
\* and emits one "discovered" event carrying that session.
C22_CreateRegistersAndEmits ==
    [][\A p \in MainPaths :
          NewMainFile(p) =>
             /\ RegisteredOne(p)
             /\ Events' = Append(Events, WatchEvent("discovered", sessions'[p], <<>>))]_vars

\* C22 as the code has it: the event is emitted unless Events is full, and
\* then it is dropped.
C22_CreateRegistersAndEmitsUnlessFull ==
    [][\A p \in MainPaths :
          NewMainFile(p) =>
             /\ RegisteredOne(p)
             /\ Events' = IF Len(Events) < EventsCap
                           THEN Append(Events,
                                       WatchEvent("discovered", sessions'[p], <<>>))
                           ELSE Events]_vars

C22_Witness ==
    /\ last.op = "handleNewFile" /\ last.path \in MainPaths
    /\ last.session # 0 /\ sessions[last.path] = last.session
    /\ last.full
    /\ \A i \in 1..Len(Events) : Events[i].Session # last.session

(***************************************************************************)
(* Intake: a main session file and a subagent file of it, with calls of    *)
(* tools the configuration shows and of tools it excludes; discovery, the  *)
(* watch loop, the subagent poll and the consumer of Events.               *)
(***************************************************************************)
IntakeLines(p) ==
    {Rec(UuidOf(p, Len(fs[p].lines) + 1), 1, items) :
        items \in {<<EditItem>>, <<ReadItem, WriteItem>>, <<ReadItem>>}}

IntakeNext ==
    \/ \E d \in Dirs \ {ProjectDir} : MkDir(d)
    \/ \E p \in {"m1", "s1"} : CreateFile(p)
    \/ \E p \in {"m1", "s1"} :
          /\ Len(fs[p].lines) < MaxOrderLines
          /\ \E L \in IntakeLines(p) : WriteLine(p, L)
    \/ DiscoverSessions
    \/ HandleFSEvent(TRUE)
    \/ Unlock
    \/ ScanForNewSubagents
    \/ ReceiveEvent

SpecIntake == Init /\ [][IntakeNext]_vars

\* C23: for an untracked subagent file of a registered session, the poll
\* leaves the session's commands, lastActivity and active flag, the subagent
\* map, the offsets and the emitted events as the handling of a create event
\* for that file leaves them.
C23_PollLikeCreateEvent ==
    [][\A p \in SubPaths :
          (last'.op = "ScanForNewSubagents" /\ UntrackedSubagents = <<p>>)
             => handleNewFile(p)]_vars

C23_Witness ==
    /\ last.op = "ScanForNewSubagents" /\ last.ok
    /\ \E p \in SubPaths :
          /\ subagentMap[p] # ""
          /\ \E i \in 1..Len(heap[sessions[MainOf(p)]].Commands) :
                heap[sessions[MainOf(p)]].Commands[i].FilePath = p

\* C25: no command list of a session and no event holds an entry whose
\* pattern the configuration excludes.
C25_NoExcludedEntry ==
    /\ \A i \in 1..Len(heap) : \A j \in 1..Len(heap[i].Commands) :
          ~ShouldExclude(GlobalConfig, heap[i].Commands[j].Pattern)
    /\ \A i \in 1..Len(Events) : \A j \in 1..Len(Events[i].Commands) :
          ~ShouldExclude(GlobalConfig, Events[i].Commands[j].Pattern)

\* a file with a call of an excluded tool has been taken in, by discovery
\* and by an incremental read
C25_Witness ==
    /\ last.op = "handleFileUpdate" /\ last.ok
    /\ fs[last.path].lines[Len(fs[last.path].lines)].items = <<ReadItem, WriteItem>>
    /\ Len(last.newCommands) = 1 /\ last.newCommands[1].ToolName = "Write"
    /\ heap[last.session].Commands = last.oldCommands \o last.newCommands

(***************************************************************************)
(* Session metadata: records that carry a working directory and a git      *)
(* branch, in a main session file and in a subagent file of it.            *)
(***************************************************************************)
MetaLines(p) ==
    {[Rec(UuidOf(p, Len(fs[p].lines) + 1), 1, <<EditItem>>) EXCEPT
         !.cwd = m[1], !.gitBranch = m[2]] :
        m \in {<<"", "">>, <<"/a", "main">>, <<"/b", "dev">>}}

MetaNext ==
    \/ \E d \in Dirs \ {ProjectDir} : MkDir(d)
    \/ \E p \in {"m1", "s1"} : CreateFile(p)
    \/ \E p \in {"m1", "s1"} :
          /\ Len(fs[p].lines) < MaxOrderLines
          /\ \E L \in MetaLines(p) : WriteLine(p, L)
    \/ DiscoverSessions
    \/ HandleFSEvent(TRUE)
    \/ Unlock

SpecMeta == Init /\ [][MetaNext]_vars

\* C24: an incremental update sets the session's working directory only
\* when the session has none recovered from a log (its ProjectPath is still
\* the name of the project directory) and the read found one, and sets the
\* git branch only when the session's is empty; a session that has a
\* log-derived working directory, or a git branch, keeps it.
C24_MetadataOnlyBackfilled ==
    [][\A p \in Paths :
          UpdateStep(p) =>
             LET old == heap[last'.session]
                 new == heap'[last'.session]
                 meta == ReadFrom(p).meta
             IN  /\ new.ProjectPath = IF old.ProjectPath = ProjectDir /\ meta.CWD # ""
                                      THEN meta.CWD ELSE old.ProjectPath
                 /\ new.GitBranch = IF old.GitBranch = "" THEN meta.GitBranch
                                    ELSE old.GitBranch]_vars

(***************************************************************************)
(* Shutdown: Stop closes w.done while the watch loop handles events.  The  *)
(* handler returns (weak fairness of Unlock), and a select with a ready    *)
(* case <-w.done chooses it sooner or later, since Go picks among the      *)
(* ready cases at random (strong fairness of LoopReturn).                  *)
(***************************************************************************)
StopNext ==
    \/ CreateFile("m1")
    \/ \E L \in WriterLines("m1") : WriteLine("m1", L)
    \/ DiscoverSessions
    \/ HandleFSEvent(TRUE)
    \/ Unlock
    \/ ReceiveEvent
    \/ Stop
    \/ LoopReturn

SpecStop == Init /\ [][StopNext]_vars /\ WF_vars(Unlock) /\ SF_vars(LoopReturn)

\* C27: after Stop every watch loop returns; a loop does not return while
\* its handler runs, so a handler that was executing when Stop was called
\* has released the lock, with its offset, its commands and the cache
\* invalidation in the registry, when the loop is gone.
C27_StopEndsLoopAfterHandler ==
    /\ [](done => <>(exited = loops))
    /\ [][(exited' > exited /\ loops = 1) => (mu = "" /\ mu' = "")]_vars
    /\ []((done /\ exited = loops /\ loops = 1 /\ inFlight.op = "handleFileUpdate"
              /\ inFlight.ok)
            => /\ mu = ""
               /\ offsets[inFlight.path] >= inFlight.newOffset
               /\ Len(heap[inFlight.session].Commands)
                     >= Len(inFlight.oldCommands) + Len(inFlight.newCommands))

C27_Witness ==
    /\ done /\ exited = loops /\ loops = 1
    /\ inFlight.op = "handleFileUpdate" /\ inFlight.ok
    /\ Len(inFlight.newCommands) > 0
    /\ heap[inFlight.session].Commands = inFlight.oldCommands \o inFlight.newCommands
    /\ offsets[inFlight.path] = inFlight.newOffset
    /\ ~sortedCacheValid

(***************************************************************************)
(* A watched root that appears late: at the one discovery neither the root *)
(* nor the project directory exists.  The watch loop handles every         *)
(* notification that is queued (weak fairness of HandleFSEvent) and every  *)
(* handler returns (weak fairness of Unlock).                              *)
(***************************************************************************)
LateInit == InitWith({})

LateNext ==
    \/ \E d \in {"root", ProjectDir} : MkDir(d)
    \/ CreateFile("m1")
    \/ \E L \in WriterLines("m1") : WriteLine("m1", L)
    \/ Tick
    \/ loops = 0 /\ DiscoverSessions
    \/ HandleFSEvent(TRUE)
    \/ Unlock

SpecLate ==
    LateInit /\ [][LateNext]_vars /\ WF_vars(HandleFSEvent(TRUE)) /\ WF_vars(Unlock)

RefreshNext ==
    \/ CreateFile("m1")
    \/ /\ Len(fs["m1"].lines) < MaxOrderLines
       /\ \E L \in WriterLines("m1") : WriteLine("m1", L)
    \/ RemoveFile("m1")
    \/ Sleep
    \/ DiscoverSessions
    \/ HandleFSEvent(TRUE)
    \/ Unlock
    \/ RefreshActivityStatus

SpecRefresh == Init /\ [][RefreshNext]_vars

\* the fields of a Session other than the active flag
SessionData(s) == [s EXCEPT !.IsActive = FALSE]

\* C31: RefreshActivityStatus changes nothing but active flags: every session keeps
\* its command list, lastActivity, working directory and git branch, every file its
\* stored offset and line number, and a session whose file cannot be stat'ed keeps
\* its active flag too
C31_RefreshChangesOnlyActiveFlags ==
    [][last'.op = "RefreshActivityStatus" =>
          /\ UNCHANGED <<sessions, offsets, lineNumbers, subagentMap>>
          /\ Len(heap') = Len(heap)
          /\ \A i \in 1..Len(heap) : SessionData(heap'[i]) = SessionData(heap[i])
          /\ \A p \in MainPaths :
                sessions[p] # 0 /\ ~fs[p].exists =>
                   heap'[sessions[p]].IsActive = heap[sessions[p]].IsActive]_vars

\* a refresh has just run over a registered session that was active and whose file
\* is gone, and over nothing else
C31_Witness ==
    /\ last.op = "RefreshActivityStatus"
    /\ sessions["m1"] # 0
    /\ ~fs["m1"].exists
    /\ heap[sessions["m1"]].IsActive
    /\ heap[sessions["m1"]].Commands # <<>>

(***************************************************************************)
(* The lock w.mu: two tasks call GetSessions while the watch loop handles  *)
(* the writes to one session file and the UI task discovers, refreshes,    *)
(* polls and adds a directory.  The scheduler of the lock is fair: a task  *)
(* that can take the lock again and again gets it, and a task that is not  *)
(* waiting for the lock goes on.                                           *)
(***************************************************************************)
LockNext ==
    \/ CreateFile("m1")
    \/ /\ Len(fs["m1"].lines) < MaxOrderLines
       /\ \E L \in WriterLines("m1") : WriteLine("m1", L)
    \/ DiscoverSessions
    \/ HandleFSEvent(TRUE)
    \/ Unlock
    \/ RefreshActivityStatus
    \/ ScanForNewSubagents
    \/ AddProjectsDir("root")
    \/ \E c \in Callers : CallRLock(c)
    \/ \E c \in Callers : CallRead(c)
    \/ \E c \in Callers : CallLock(c)
    \/ \E c \in Callers : CallRebuild(c)

SpecLock ==
    /\ Init /\ [][LockNext]_vars
    /\ WF_vars(Unlock)
    /\ \A c \in Callers : /\ WF_vars(CallRead(c))
                          /\ SF_vars(CallLock(c))
                          /\ WF_vars(CallRebuild(c))

\* the state of the registry that w.mu protects
Guarded == <<projectsDirs, heap, sessions, offsets, lineNumbers, subagentMap,
             sortedCache, sortedCacheValid>>

\* C32: the critical sections on w.mu never overlap: while a task holds the write
\* lock no task holds a read lock and no other task holds the write lock, and the
\* registry changes only in a step of the one task that holds the write lock, with
\* no reader of the cache inside GetSessions
C32_MutualExclusion ==
    /\ [](mu # "" => muReaders = {})
    /\ [](\A c \in Callers : /\ callers[c] = "wlock" <=> mu = c
                             /\ callers[c] = "rlock" <=> c \in muReaders)
    /\ [][Guarded' # Guarded =>
            /\ muReaders = {} /\ muReaders' = {}
            /\ \/ mu = "" /\ mu' \in {"", "watch"}
               \/ mu \in Callers /\ mu' = ""]_vars

\* one caller of GetSessions waits for the write lock while the other rebuilds the
\* cache under it
C32_Witness ==
    /\ callers["c1"] = "wlock"
    /\ callers["c2"] = "lock"
    /\ ~sortedCacheValid
    /\ heap # <<>>

\* C39: GetSessions always returns: a caller inside it gets back to its caller,
\* whatever the other caller, the watch loop and the UI task do
C39_GetSessionsReturns ==
    \A c \in Callers : callers[c] # "idle" ~> callers[c] = "idle"

\* both callers found the cache invalid and are on their way to the write lock,
\* which the watch loop holds
C39_Witness ==
    /\ callers["c1"] = "lock"
    /\ callers["c2"] = "lock"
    /\ mu = "watch"

\* C33: the stored offset of a path never decreases, whatever operation runs
\* (the files of the model are only appended to)
C33_OffsetsMonotone ==
    [][\A p \in Paths : offsets'[p] >= offsets[p]]_vars

\* the line boundaries of a file: the offsets at which a terminated line ends, and 0
LineBoundaries(lines) ==
    {FileSize(SubSeq(lines, 1, k)) : k \in {j \in 0..Len(lines) : j = 0 \/ lines[j].done}}

\* the path is tracked: a registered main session file or a subagent file of the
\* subagent map
Tracked(p) ==
    \/ p \in MainPaths /\ sessions[p] # 0
    \/ p \in SubPaths /\ subagentMap[p] # ""

\* every line of the file ends, or will end, with "\n" and not with "\r\n"
LFOnly(lines) == \A i \in 1..Len(lines) : ~lines[i].cr

\* C34: the stored offset of a tracked file whose lines end with "\n" is never
\* beyond the size of the file and, once a write event has been handled, lies on
\* a line boundary: a partial last line is not consumed
C34_OffsetOnLineBoundary ==
    \A p \in Paths :
       Tracked(p) /\ LFOnly(fs[p].lines) =>
          /\ offsets[p] <= FileSize(fs[p].lines)
          /\ (last.op = "handleFileUpdate" /\ last.path = p /\ last.ok) =>
                offsets[p] \in LineBoundaries(fs[p].lines)

(***************************************************************************)
(* The writer against the handlers: one main session file that the writer  *)
(* appends whole lines to, also while handleNewFile is working on it.      *)
(***************************************************************************)
AppendNext ==
    \/ CreateFile("m1")
    \/ \E L \in WriterLines("m1") : WriteLine("m1", L)
    \/ \E L \in WriterLines("m1") : WriteDuringHandler("m1", L)
    \/ DiscoverSessions
    \/ HandleFSEvent(TRUE)
    \/ Unlock
    \/ ReceiveEvent

SpecAppend == Init /\ [][AppendNext]_vars

\* line L is a complete record with a tool call that is displayed
ToolUseLine(L) ==
    /\ L.done /\ L.json /\ L.type = "assistant" /\ L.hasMessage
    /\ \E j \in 1..Len(L.items) :
          L.items[j].type = "tool_use" /\ ~ShouldExclude(GlobalConfig, L.items[j].name)

\* C35: once a write event of a tracked file has been handled, every complete
\* tool_use line the file held at that moment has an entry in the command list of
\* the owning session, lines appended while the file was being registered included
C35_NoLineLost ==
    [][\A p \in MainPaths :
          UpdateStep(p) =>
             \A i \in 1..Len(fs[p].lines) :
                ToolUseLine(fs[p].lines[i]) =>
                   \E k \in 1..Len(heap'[sessions[p]].Commands) :
                      LET e == heap'[sessions[p]].Commands[k]
                      IN  e.UUID = fs[p].lines[i].uuid /\ e.FilePath = p]_vars

\* the watch loop's step is handleNewFile(path)
NewFileStep(path) ==
    /\ mu = "" /\ mu' = "watch"
    /\ last'.op = "handleNewFile" /\ last'.path = path

\* C36: a create event for a subagent file that is already in the subagent map
\* leaves every command list as it is and emits no event
C36_TrackedCreateIsNoOp ==
    [][\A p \in SubPaths :
          NewFileStep(p) /\ subagentMap[p] # "" =>
             /\ \A i \in 1..Len(heap) : heap'[i].Commands = heap[i].Commands
             /\ Events' = Events]_vars

\* the command list of the registered session of main holds an entry of file p
Merged(p, main) ==
    /\ sessions[main] # 0
    /\ \E k \in 1..Len(heap[sessions[main]].Commands) :
          heap[sessions[main]].Commands[k].FilePath = p

\* C37: a subagent file whose entries are in its session's command list is in the
\* subagent map, with the size it had when it was parsed as its stored offset or
\* a later one
C37_MergedSubagentIsTracked ==
    \A p \in SubPaths :
       Merged(p, MainOf(p)) => subagentMap[p] = MainOf(p) /\ offsets[p] > 0

\* C38: while the cache is marked valid, the cached slice holds the session objects
\* the registry map holds now, each once and no other, in descending order of their
\* current LastActivity
C38_CacheCoherent ==
    sortedCacheValid =>
        /\ Len(sortedCache) = Cardinality({p \in MainPaths : sessions[p] # 0})
        /\ \A p \in MainPaths :
              sessions[p] # 0 =>
                  Cardinality({i \in 1..Len(sortedCache) : sortedCache[i] = sessions[p]}) = 1
        /\ \A i \in 1..(Len(sortedCache) - 1) :
              heap[sortedCache[i]].LastActivity >= heap[sortedCache[i + 1]].LastActivity

\* the cache is valid after a re-discovery has replaced the session objects, and it
\* holds the two current objects, the more recently active one first, against the
\* order of the paths
C38_Witness ==
    /\ sortedCacheValid
    /\ Len(heap) > 2
    /\ Len(sortedCache) = 2
    /\ sortedCache[1] = sessions["m2"] /\ sortedCache[2] = sessions["m1"]
    /\ heap[sortedCache[1]].LastActivity > heap[sortedCache[2]].LastActivity

(***************************************************************************)
(* The de-duplication key: records whose message uuids are a prefix of one *)
(* another, with calls of the tools Edit and NotebookEdit.                 *)
(***************************************************************************)
NotebookEditItem == [type |-> "tool_use", name |-> "NotebookEdit", valid |-> TRUE,
                     input |-> [NoInput EXCEPT !.file_path = "/tmp/n.ipynb"]]

KeyLines ==
    {Rec("u", 1, <<EditItem>>), Rec("u", 1, <<NotebookEditItem>>),
     Rec("uNotebook", 1, <<EditItem>>), Rec("uNotebook", 1, <<NotebookEditItem>>),
     Rec("v", 1, <<EditItem, NotebookEditItem>>)}

KeyNext ==
    \/ \E L \in KeyLines : RdAppend(L)
    \/ RdCall

SpecKey == Init /\ [][KeyNext]_vars

\* C40: within one parse call, tool calls whose (uuid, tool name) pairs differ are
\* never taken for duplicates of one another: every pair of a displayed call of the
\* file has an entry in the result of the call
C40_DistinctPairsNotMerged ==
    (rd.calls = 1 /\ ~rd.grown) =>
       \A i \in 1..Len(rd.lines) :
          \A k \in 1..Len(rd.lines[i].items) :
             LET L == rd.lines[i]
                 it == L.items[k]
             IN  (L.json /\ it.type = "tool_use"
                         /\ ~ShouldExclude(GlobalConfig, it.name)) =>
                    \E e \in 1..Len(rd.got) :
                       rd.got[e].UUID = L.uuid /\ rd.got[e].ToolName = it.name
====
